---- MODULE Spec2Model ----
(***************************************************************************)
(* FortizedSocial: the friend graph and the notification logs, in the      *)
(* local-storage backend (one getItem or setItem of the users array per    *)
(* step, several tabs) and in the Firebase backend (one store read or      *)
(* write per step, several clients).                                       *)
(***************************************************************************)
EXTENDS Integers, Sequences, FiniteSets, TLC

\* ------------------------------------------------------------------ bounds
\* calls started in a non-interleaved run
MaxCalls == 3
\* calls started in an interleaved run
MaxConcCalls == 2
\* calls started in a run of notification calls
MaxNotifCalls == 4
\* calls started in an interleaved run of friend and notification calls
MaxMarkCalls == 3
\* calls started in a run of channel calls
MaxReactCalls == 4
\* calls started in a run that fills one notification log
MaxPushes == 52
\* calls of a run of two clients that ends with a pair of overlapping calls
MaxRaceCalls == 4
\* characters of a username whose thread key is computed
MaxNameLen == 2
\* calls of a run of direct messages
MaxDmCalls == 3
\* the values a clock takes
MaxTime == 2
\* calls of a run of the page that subscribes
MaxSubCalls == 4
\* calls of a run of the page that listens to a channel and to threads
MaxScopeCalls == 4
\* direct messages of such a run
MaxScopeDms == 1
\* messages sent to one channel
MaxSends == 501
\* calls made on each backend in a run that compares the two
MaxTwinCalls == 3
\* characters of a username register accepts whose thread key is computed
MaxValidLen == 4
\* calls of register in a run
MaxRegCalls == 3

\* ------------------------------------------------------- program constants
\* pushNotification: notifications.slice(0, 50)
NotifCap == 50
\* updateIdx: filtered.slice(0, 30)
PartnerCap == 30
\* register: username.length < 3 is rejected
MinNameLen == 3

\* --------------------------------------------------------------- universes
\* usernames with a record (register ran for them)
Registered == {"a", "b", "c", "d"}
\* a username that was never registered
Names == Registered \cup {"z"}
\* arguments of the calls of a non-interleaved run
SeqArgs == {"a", "b", "z"}
\* arguments of the calls of an interleaved run: the pairs along a - b - c - d,
\* so that two calls meet on both records, on one, or on none
ConcArgs ==
  {<<"a", "b">>, <<"b", "a">>, <<"b", "c">>, <<"c", "b">>, <<"c", "d">>, <<"d", "c">>}
Clients == {1, 2}
\* the ids sendBastionChannelMessage gives out, in this order
MsgIds == {1, 2}
\* the emoji and the users of the reactions
\* a message id no message of the channel has
NoSuchId == 9
Emojis == {"e1", "e2"}
Reactors == {"a", "b"}
Backends == {"ls", "fb"}
Ops == {"send", "accept", "decline", "remove"}

\* ----------------------------------------------------------- list helpers
\* Array.prototype.includes
Includes(s, x) == \E i \in 1..Len(s) : s[i] = x
\* arr.filter(u => u !== x)
Without(s, x) == SelectSeq(s, LAMBDA u : u # x)
\* arr.slice(0, n)
Slice(s, n) == IF Len(s) <= n THEN s ELSE SubSeq(s, 1, n)
NoDup(s) == \A i, j \in 1..Len(s) : s[i] = s[j] => i = j

\* register: friends: [], friendRequestsSent: [], friendRequestsReceived: []
EmptyUser == [friends |-> <<>>, friendRequestsSent |-> <<>>,
              friendRequestsReceived |-> <<>>]
\* what getUserByName resolves to for a name without a record
NullUser == [exists |-> FALSE, friends |-> <<>>, friendRequestsSent |-> <<>>,
             friendRequestsReceived |-> <<>>]

\* msg.reactions = {}: no emoji has an entry
NoReactions == [e \in {} |-> <<>>]
\* an id under which the channel holds nothing
NoNode == [sent |-> FALSE, reactions |-> NoReactions]
\* no thread key holds messages
NoThreads == [k \in {} |-> <<>>]
\* no thread key was computed
NoKey == [a |-> <<>>, b |-> <<>>, ab |-> <<>>, ba |-> <<>>]
\* the module state of a page when the script has loaded (local: pollInterval,
\* lastNotifCount, onNewNotification, onNewDM; Firebase: _listeners, _callbacks),
\* with the timers and listeners the page holds at the browser and the database
\* a callbacks object is known by the call of startPolling that passed it (0: none
\* was passed) and by the callbacks it holds
NoCallbacks == [gen |-> 0, notif |-> FALSE, dm |-> FALSE, status |-> FALSE]
NoSession == [pollInterval |-> 0, lastNotifCount |-> 0,
              onNewNotification |-> 0, onNewDM |-> 0, timers |-> {},
              listeners |-> <<>>, callbacks |-> NoCallbacks,
              attached |-> [h \in {} |-> NoCallbacks],
              handles |-> 0,        \* timer ids and handler functions created
              gen |-> 0,            \* calls of startPolling made
              subscribed |-> FALSE, \* startPolling was called and stopPolling not since
              since |-> 0,          \* the next notification id at the last startPolling
              \* handler of listenBastionChannel / listenDM -> the ids its callback had
              delivered |-> [h \in {} |-> <<>>],
              \* the handlers whose function returned by listen... was called
              cancelled |-> {}]
\* no callback was invoked: per notification id the invocations of
\* onNewNotification, the invocations of any session callback, and the callbacks
\* object that held the last one invoked
NoneFired == [count |-> [i \in {} |-> 0], n |-> 0, owner |-> 0]

\* no call was recorded for the other backend
NoTwin == [script |-> <<>>, users |-> <<>>]
\* no name has an account
NoAccounts == [n \in {} |-> 0]
\* an empty channel log, no twin run, no account
NoExt == [chanLog |-> <<>>, twin |-> NoTwin, accounts |-> NoAccounts]

VARIABLES
  backend,    \* which implementation of FortizedSocial this run loads
  users,      \* name -> the three relationship lists of the stored record
  notifs,     \* name -> the notification log, newest first
  nextId,     \* the next notification id (Date.now() + random suffix)
  client,     \* client -> the call it runs: function, arguments, position, reads
  hist,       \* the last two completed calls, oldest first
  pre,        \* the store when the running (or last) call of a sequential run began
  pre2,       \* the store when the call before that one began
  allOk,      \* every call completed so far returned ok
  overlap,    \* "none": no two calls were in progress together; "disjoint": some
              \* were, on different user records; "shared": some were, on a common one
  calls,      \* calls started
  msgs,       \* message id -> the node of one bastion channel under that id
  key,        \* two usernames and the thread keys computed for them, both ways
  dms,        \* thread key -> the messages stored under it
  dmKeys,     \* the thread keys of localStorage, in the order key(i) gives them
  dmIndex,    \* name -> the partner list under dmIndex/<name>
  clock,      \* client -> the last value its Date gave
  statuses,   \* name -> the value under statuses/<name>
  session,    \* the module state of the page that subscribes: timer, listeners, callbacks
  fired,      \* the callbacks invoked so far
  ext         \* the channel log, the twin run and the accounts (below)

dmVars == <<dms, dmKeys, dmIndex, clock>>
subVars == <<statuses, session, fired>>
extVars == <<ext>>

\* the messages of one bastion channel, in the order they are stored
chanLog == ext.chanLog
\* the calls made on one backend and the store they left, kept to make the same
\* calls on the other backend
twin == ext.twin
\* name -> the account record register stored for it
accounts == ext.accounts

vars == <<backend, users, notifs, nextId, client, hist, pre, pre2, allOk, overlap,
          calls, msgs, key, extVars, dmVars, subVars>>

\* ------------------------------------------------------------ notifications
\* pushNotification / addNotification: the entry as it is stored
Notif(id, type, from) == [id |-> id, type |-> type, from |-> from, read |-> FALSE]

\* mutant: the entries under the new one are marked read
LsPushModifyMarksRead(ns, target, n) ==
  [ns EXCEPT ![target] =
     Slice(<<n>> \o [i \in 1..Len(@) |-> [@[i] EXCEPT !.read = TRUE]], NotifCap)]

\* pushNotification: notifications.unshift(notification), then slice(0, 50)
LsPushModify(ns, target, n) ==
  [ns EXCEPT ![target] = Slice(<<n>> \o @, NotifCap)]

\* mutant: the entry goes to the log of its source
FbAddNotificationToSource(ns, target, n) ==
  [ns EXCEPT ![n.from] = <<n>> \o @]

\* addNotification(toUsername, notif): dbSet(notifications/<to>/<id>, notif);
\* the log is kept in the order getNotifications returns it, newest first
FbAddNotification(ns, target, n) ==
  [ns EXCEPT ![target] = <<n>> \o @]

\* the type of the notification a call pushes: sendFriendRequest, acceptFriendRequest,
\* or a push from elsewhere (sendDMMessage: type 'dm')
NotifType(fn) ==
  CASE fn = "send" -> "friend_request"
    [] fn = "accept" -> "friend_accept"
    [] OTHER -> "dm"

\* the message of the call that ends after its notification
DoneKind(fn) ==
  CASE fn = "send" -> "sent"
    [] fn = "accept" -> "accepted"
    [] fn = "dm" -> "dmsent"
    [] OTHER -> "pushed"

\* mutant: the newest entry is left as it is
LsMarkModifyButNewest(log) ==
  [i \in 1..Len(log) |-> IF i = 1 THEN log[i] ELSE [log[i] EXCEPT !.read = TRUE]]

\* markNotificationsRead (local): forEach(n => n.read = true)
LsMarkModify(log) == [i \in 1..Len(log) |-> [log[i] EXCEPT !.read = TRUE]]

\* markNotificationsRead (Firebase): updates[k + '/read'] = true for the keys read
FbMarkUpdate(log, keys) ==
  [i \in 1..Len(log) |-> IF log[i].id \in keys THEN [log[i] EXCEPT !.read = TRUE]
                          ELSE log[i]]

\* the keys of the object dbGet(notifications/<u>) resolved to
KeysOf(log) == {log[i].id : i \in 1..Len(log)}

\* getUnreadCount: getNotifications(username).filter(n => !n.read).length
UnreadCount(log) == Len(SelectSeq(log, LAMBDA n : ~n.read))

\* ------------------------------------------------------ the running calls
\* the users array under 'fortized_users': the records with their notifications
Store == [users |-> users, notifs |-> notifs, nextId |-> nextId, msgs |-> msgs,
          dms |-> dms, dmKeys |-> dmKeys, dmIndex |-> dmIndex]
NoSnap == [users |-> [n \in Names |-> EmptyUser], notifs |-> [n \in Names |-> <<>>]]

Idle == [fn |-> "none", op |-> "none", x |-> "z", y |-> "z", pc |-> "idle",
         r1 |-> NullUser, r2 |-> NullUser, snap |-> NoSnap]
Started(op, x, y, pc) ==
  [fn |-> op, op |-> op, x |-> x, y |-> y, pc |-> pc,
   r1 |-> NullUser, r2 |-> NullUser, snap |-> NoSnap]
AllIdle == \A c \in Clients : client[c].pc = "idle"
Running(c) == client[c].pc # "idle"

\* the completed call, as the caller sees it: arguments and { ok, msg }
Entry(op, x, y, ok, kind) == [op |-> op, x |-> x, y |-> y, ok |-> ok, kind |-> kind]
LastTwo(h) == IF Len(h) <= 2 THEN h ELSE SubSeq(h, Len(h) - 1, Len(h))

\* the call of client c returns { ok, msg }; kind names the message
Finish(c, ok, kind) ==
  /\ client' = [client EXCEPT ![c] = Idle]
  /\ hist' = LastTwo(Append(hist, Entry(client[c].op, client[c].x, client[c].y, ok, kind)))
  /\ allOk' = (allOk /\ ok)

\* client c goes on to its next store request
Goto(c, pc) ==
  /\ client' = [client EXCEPT ![c].pc = pc]
  /\ UNCHANGED <<hist, allOk>>

\* a call starts on client c; sendFriendRequest returns at once when from === to
Begin(c, op, x, y, first) ==
  /\ client[c].pc = "idle"
  /\ IF op = "send" /\ x = y
       THEN /\ client' = [client EXCEPT ![c] = Idle]
            /\ hist' = LastTwo(Append(hist, Entry(op, x, y, FALSE, "self")))
            /\ allOk' = FALSE
       ELSE /\ client' = [client EXCEPT ![c] = Started(op, x, y, first)]
            /\ UNCHANGED <<hist, allOk>>
  /\ UNCHANGED <<users, notifs, nextId, key, extVars, dmVars, subVars>>

\* what the steps of a call leave alone
Frame ==
  UNCHANGED <<backend, pre, pre2, overlap, calls, msgs, key, extVars, dmVars, subVars>>

\* ------------------------------------------------- local-storage backend
\* getUserByName(name): getUsers().find(...), or null
LsGetUser(name) ==
  IF name \in Registered
    THEN [exists |-> TRUE, friends |-> users[name].friends,
          friendRequestsSent |-> users[name].friendRequestsSent,
          friendRequestsReceived |-> users[name].friendRequestsReceived]
    ELSE NullUser

\* acceptFriendRequest: friends.push unless friends.includes
AddFriend(friends, name) ==
  IF Includes(friends, name) THEN friends ELSE Append(friends, name)

\* sendFriendRequest: the checks on fromUser, once both records are found
LsSendCheck(fromUser, to) ==
  IF Includes(fromUser.friends, to) THEN "friends"
  ELSE IF Includes(fromUser.friendRequestsSent, to) THEN "dup"
  ELSE IF Includes(fromUser.friendRequestsReceived, to) THEN "autoaccept"
  ELSE "write"

\* sendFriendRequest: the two pushes on the array getUsers() returned
LsSendModify(us, from, to) ==
  LET u1 == [us EXCEPT ![from].friendRequestsSent = Append(@, to)]
  IN [u1 EXCEPT ![to].friendRequestsReceived = Append(@, from)]

\* acceptFriendRequest: the changes to the array getUsers() returned
LsAcceptModify(us, me, from) ==
  LET u1 == [us EXCEPT ![me].friends = AddFriend(@, from)]
      u2 == [u1 EXCEPT ![from].friends = AddFriend(@, me)]
      u3 == [u2 EXCEPT ![me].friendRequestsReceived = Without(@, from)]
  IN [u3 EXCEPT ![from].friendRequestsSent = Without(@, me)]

\* mutant: only the caller's record is filtered
LsDeclineOneSide(us, me, from) ==
  IF me \in Registered
    THEN [us EXCEPT ![me].friendRequestsReceived = Without(@, from)]
    ELSE us

\* declineFriendRequest: the changes to the array getUsers() returned
LsDeclineModify(us, me, from) ==
  LET u1 == IF me \in Registered
              THEN [us EXCEPT ![me].friendRequestsReceived = Without(@, from)]
              ELSE us
  IN IF from \in Registered
       THEN [u1 EXCEPT ![from].friendRequestsSent = Without(@, me)]
       ELSE u1

\* mutant: a pair that is not in the friends lists is put there
LsRemoveToggles(us, me, friend) ==
  IF me \in Registered /\ friend \in Registered /\ me # friend
       /\ ~Includes(us[me].friends, friend)
    THEN [us EXCEPT ![me].friends = Append(@, friend),
                    ![friend].friends = Append(@, me)]
    ELSE [n \in DOMAIN us |->
            [us[n] EXCEPT !.friends =
               IF n = me THEN Without(@, friend)
               ELSE IF n = friend THEN Without(@, me) ELSE @]]

\* mutant: only the caller's record is filtered
LsRemoveOneSide(us, me, friend) ==
  IF me \in Registered
    THEN [us EXCEPT ![me].friends = Without(@, friend)]
    ELSE us

\* removeFriend: the changes to the array getUsers() returned
LsRemoveModify(us, me, friend) ==
  LET u1 == IF me \in Registered
              THEN [us EXCEPT ![me].friends = Without(@, friend)]
              ELSE us
  IN IF friend \in Registered
       THEN [u1 EXCEPT ![friend].friends = Without(@, me)]
       ELSE u1

\* a call starts on client c of the local-storage backend
LsBegin(c, op, x, y) ==
  /\ backend = "ls"
  /\ Begin(c, op, x, y, IF op = "send" THEN "lsGetTo" ELSE "lsGetUsers")

\* sendFriendRequest: toUser = getUserByName(toUsername)
LsGetTo(c) ==
  LET k == client[c]
  IN /\ k.pc = "lsGetTo"
     /\ IF ~LsGetUser(k.y).exists THEN Finish(c, FALSE, "nouser")
        ELSE Goto(c, "lsGetFrom")
     /\ UNCHANGED <<users, notifs, nextId>>
     /\ Frame

\* sendFriendRequest: fromUser = getUserByName(fromUsername), and the checks
LsGetFrom(c) ==
  LET k == client[c]
      fromUser == LsGetUser(k.x)
      chk == LsSendCheck(fromUser, k.y)
  IN /\ k.pc = "lsGetFrom"
     /\ IF ~fromUser.exists THEN Finish(c, FALSE, "nouser")
        ELSE IF chk \in {"friends", "dup"} THEN Finish(c, FALSE, chk)
        ELSE IF chk = "autoaccept"
          THEN /\ client' = [client EXCEPT ![c].fn = "accept", ![c].pc = "lsGetUsers"]
               /\ UNCHANGED <<hist, allOk>>
        ELSE Goto(c, "lsGetUsers")
     /\ UNCHANGED <<users, notifs, nextId>>
     /\ Frame

\* users = getUsers(), and the changes made to that array in memory
LsGetUsers(c) ==
  LET k == client[c]
      changed == CASE k.fn = "send" -> LsSendModify(users, k.x, k.y)
                   [] k.fn = "accept" -> LsAcceptModify(users, k.x, k.y)
                   [] k.fn = "decline" -> LsDeclineModify(users, k.x, k.y)
                   [] k.fn = "remove" -> LsRemoveModify(users, k.x, k.y)
  IN /\ k.pc = "lsGetUsers"
     /\ IF k.fn = "accept" /\ (k.x \notin Registered \/ k.y \notin Registered)
          THEN Finish(c, FALSE, "nouser")
          ELSE /\ client' = [client EXCEPT
                               ![c].snap = [users |-> changed, notifs |-> notifs],
                               ![c].pc = "lsSave"]
               /\ UNCHANGED <<hist, allOk>>
     /\ UNCHANGED <<users, notifs, nextId>>
     /\ Frame

\* saveUsers(users): the whole array is written back
LsSave(c) ==
  LET k == client[c]
  IN /\ k.pc = "lsSave"
     /\ users' = k.snap.users
     /\ notifs' = k.snap.notifs
     /\ UNCHANGED nextId
     /\ CASE k.fn \in {"send", "accept"} -> Goto(c, "lsPushGet")
          [] k.fn = "decline" -> Finish(c, TRUE, "declined")
          [] k.fn = "remove" -> Finish(c, TRUE, "removed")
     /\ Frame

\* pushNotification: users = getUsers(), and the unshift on that array
LsPushGet(c) ==
  LET k == client[c]
      n == Notif(nextId, NotifType(k.fn), k.x)
  IN /\ k.pc = "lsPushGet"
     /\ IF k.y \notin Registered
          THEN /\ IF k.fn = "push" THEN Finish(c, FALSE, "notarget")
                  ELSE Finish(c, TRUE, DoneKind(k.fn))
               /\ UNCHANGED nextId
          ELSE /\ client' = [client EXCEPT
                               ![c].snap = [users |-> users,
                                            notifs |-> LsPushModify(notifs, k.y, n)],
                               ![c].pc = "lsPushSave"]
               /\ nextId' = nextId + 1
               /\ UNCHANGED <<hist, allOk>>
     /\ UNCHANGED <<users, notifs>>
     /\ Frame

\* pushNotification: saveUsers(users), then the call returns { ok: true, msg }
LsPushSave(c) ==
  LET k == client[c]
  IN /\ k.pc = "lsPushSave"
     /\ users' = k.snap.users
     /\ notifs' = k.snap.notifs
     /\ UNCHANGED nextId
     /\ Finish(c, TRUE, DoneKind(k.fn))
     /\ Frame

\* markNotificationsRead: users = getUsers(), and the forEach on that array
LsMarkGet(c) ==
  LET k == client[c]
  IN /\ k.pc = "lsMarkGet"
     /\ IF k.x \notin Registered THEN Finish(c, TRUE, "marked")
        ELSE /\ client' = [client EXCEPT
                             ![c].snap = [users |-> users,
                                          notifs |-> [notifs EXCEPT ![k.x] = LsMarkModify(@)]],
                             ![c].pc = "lsMarkSave"]
             /\ UNCHANGED <<hist, allOk>>
     /\ UNCHANGED <<users, notifs, nextId>>
     /\ Frame

\* markNotificationsRead: saveUsers(users)
LsMarkSave(c) ==
  LET k == client[c]
  IN /\ k.pc = "lsMarkSave"
     /\ users' = k.snap.users
     /\ notifs' = k.snap.notifs
     /\ UNCHANGED nextId
     /\ Finish(c, TRUE, "marked")
     /\ Frame

\* ------------------------------------------------------- Firebase backend
\* getUserByName(username): dbGet(users/<username>), or null
FbGetUser(name) ==
  IF name \in Registered
    THEN [exists |-> TRUE, friends |-> users[name].friends,
          friendRequestsSent |-> users[name].friendRequestsSent,
          friendRequestsReceived |-> users[name].friendRequestsReceived]
    ELSE NullUser

\* mutant: the auto-accept test reads the other list of the same record
FbSendCheckWrongList(from, to, fu, tu) ==
  IF ~fu.exists THEN "nouser"
  ELSE IF ~tu.exists THEN "nouser"
  ELSE IF Includes(fu.friends, to) THEN "friends"
  ELSE IF Includes(fu.friendRequestsSent, to) THEN "dup"
  ELSE IF Includes(tu.friendRequestsReceived, from) THEN "autoaccept"
  ELSE "write"

\* mutant: the test for a request already sent is missing
FbSendCheckNoDup(from, to, fu, tu) ==
  IF ~fu.exists THEN "nouser"
  ELSE IF ~tu.exists THEN "nouser"
  ELSE IF Includes(fu.friends, to) THEN "friends"
  ELSE IF Includes(tu.friendRequestsSent, from) THEN "autoaccept"
  ELSE "write"

\* sendFriendRequest, from the second read to the first write: the checks
FbSendCheck(from, to, fu, tu) ==
  IF ~fu.exists THEN "nouser"
  ELSE IF ~tu.exists THEN "nouser"
  ELSE IF Includes(fu.friends, to) THEN "friends"
  ELSE IF Includes(fu.friendRequestsSent, to) THEN "dup"
  ELSE IF Includes(tu.friendRequestsSent, from) THEN "autoaccept"
  ELSE "write"

\* mutant: friendRequestsSent is left out of the update
FbAcceptUpdateKeepsSent(mu, other) ==
  [friends |-> AddFriend(mu.friends, other),
   friendRequestsReceived |-> Without(mu.friendRequestsReceived, other),
   friendRequestsSent |-> mu.friendRequestsSent]

\* mutant: friendRequestsReceived is left out of the update
FbAcceptUpdateKeepsReceived(mu, other) ==
  [friends |-> AddFriend(mu.friends, other),
   friendRequestsReceived |-> mu.friendRequestsReceived,
   friendRequestsSent |-> Without(mu.friendRequestsSent, other)]

\* acceptFriendRequest: the object of the dbUpdate of users/<me>, from the read mu
FbAcceptUpdate(mu, other) ==
  [friends |-> AddFriend(mu.friends, other),
   friendRequestsReceived |-> Without(mu.friendRequestsReceived, other),
   friendRequestsSent |-> Without(mu.friendRequestsSent, other)]

\* mutant: the test is inverted
FbSendWritesReceivedInverted(tu, from) == Includes(tu.friendRequestsReceived, from)

\* sendFriendRequest: the dbUpdate of users/<to> is skipped when the read
\* friendRequestsReceived already holds from
FbSendWritesReceived(tu, from) == ~Includes(tu.friendRequestsReceived, from)

\* a call starts on client c of the Firebase backend
FbBegin(c, op, x, y) ==
  /\ backend = "fb"
  /\ Begin(c, op, x, y, "read1")

\* Promise.all([getUserByName(x), getUserByName(y)]): the first read
FbRead1(c) ==
  /\ client[c].pc = "read1"
  /\ client' = [client EXCEPT ![c].r1 = FbGetUser(client[c].x), ![c].pc = "read2"]
  /\ UNCHANGED <<users, notifs, nextId, hist, allOk>>
  /\ Frame

\* the second read, and the synchronous code up to the next store request
FbRead2(c) ==
  LET k == client[c]
      r2 == FbGetUser(k.y)
      chk == FbSendCheck(k.x, k.y, k.r1, r2)
  IN /\ k.pc = "read2"
     /\ UNCHANGED <<users, notifs, nextId>>
     /\ Frame
     /\ CASE k.fn = "send" ->
               IF chk \in {"nouser", "friends", "dup"} THEN Finish(c, FALSE, chk)
               ELSE IF chk = "autoaccept"
                 THEN /\ client' = [client EXCEPT ![c].fn = "accept", ![c].pc = "read1",
                                                  ![c].r1 = NullUser, ![c].r2 = NullUser]
                      /\ UNCHANGED <<hist, allOk>>
               ELSE /\ client' = [client EXCEPT ![c].r2 = r2, ![c].pc = "write1"]
                    /\ UNCHANGED <<hist, allOk>>
          [] k.fn = "accept" ->
               IF ~k.r1.exists \/ ~r2.exists THEN Finish(c, FALSE, "nouser")
               ELSE /\ client' = [client EXCEPT ![c].r2 = r2, ![c].pc = "write1"]
                    /\ UNCHANGED <<hist, allOk>>
          [] k.fn \in {"decline", "remove"} ->
               IF k.r1.exists
                 THEN /\ client' = [client EXCEPT ![c].r2 = r2, ![c].pc = "write1"]
                      /\ UNCHANGED <<hist, allOk>>
               ELSE IF r2.exists
                 THEN /\ client' = [client EXCEPT ![c].r2 = r2, ![c].pc = "write2"]
                      /\ UNCHANGED <<hist, allOk>>
               ELSE Finish(c, TRUE, IF k.fn = "decline" THEN "declined" ELSE "removed")

\* the dbUpdate of users/<x>
FbWrite1(c) ==
  LET k == client[c]
  IN /\ k.pc = "write1"
     /\ UNCHANGED <<notifs, nextId>>
     /\ Frame
     /\ CASE k.fn = "send" ->
               /\ users' = [users EXCEPT ![k.x].friendRequestsSent =
                                            Append(k.r1.friendRequestsSent, k.y)]
               /\ Goto(c, IF FbSendWritesReceived(k.r2, k.x) THEN "write2" ELSE "notify")
          [] k.fn = "accept" ->
               /\ users' = [users EXCEPT ![k.x] = FbAcceptUpdate(k.r1, k.y)]
               /\ Goto(c, "write2")
          [] k.fn = "decline" ->
               /\ users' = [users EXCEPT ![k.x].friendRequestsReceived =
                                            Without(k.r1.friendRequestsReceived, k.y)]
               /\ IF k.r2.exists THEN Goto(c, "write2") ELSE Finish(c, TRUE, "declined")
          [] k.fn = "remove" ->
               /\ users' = [users EXCEPT ![k.x].friends = Without(k.r1.friends, k.y)]
               /\ IF k.r2.exists THEN Goto(c, "write2") ELSE Finish(c, TRUE, "removed")

\* the dbUpdate of users/<y>
FbWrite2(c) ==
  LET k == client[c]
  IN /\ k.pc = "write2"
     /\ UNCHANGED <<notifs, nextId>>
     /\ Frame
     /\ CASE k.fn = "send" ->
               /\ users' = [users EXCEPT ![k.y].friendRequestsReceived =
                                            Append(k.r2.friendRequestsReceived, k.x)]
               /\ Goto(c, "notify")
          [] k.fn = "accept" ->
               /\ users' = [users EXCEPT ![k.y] = FbAcceptUpdate(k.r2, k.x)]
               /\ Goto(c, "notify")
          [] k.fn = "decline" ->
               /\ users' = [users EXCEPT ![k.y].friendRequestsSent =
                                            Without(k.r2.friendRequestsSent, k.x)]
               /\ Finish(c, TRUE, "declined")
          [] k.fn = "remove" ->
               /\ users' = [users EXCEPT ![k.y].friends = Without(k.r2.friends, k.x)]
               /\ Finish(c, TRUE, "removed")

\* addNotification(y, ...), then return { ok: true, msg }
FbNotify(c) ==
  LET k == client[c]
  IN /\ k.pc = "notify"
     /\ notifs' = FbAddNotification(notifs, k.y, Notif(nextId, NotifType(k.fn), k.x))
     /\ nextId' = nextId + 1
     /\ UNCHANGED users
     /\ Frame
     /\ Finish(c, TRUE, DoneKind(k.fn))

\* markNotificationsRead: data = dbGet(notifications/<x>)
FbMarkRead(c) ==
  LET k == client[c]
  IN /\ k.pc = "fbMarkRead"
     /\ IF notifs[k.x] = <<>> THEN Finish(c, TRUE, "marked")
        ELSE /\ client' = [client EXCEPT
                             ![c].snap = [users |-> NoSnap.users, notifs |-> notifs],
                             ![c].pc = "fbMarkWrite"]
             /\ UNCHANGED <<hist, allOk>>
     /\ UNCHANGED <<users, notifs, nextId>>
     /\ Frame

\* markNotificationsRead: dbUpdate(notifications/<x>, updates)
FbMarkWrite(c) ==
  LET k == client[c]
  IN /\ k.pc = "fbMarkWrite"
     /\ notifs' = [notifs EXCEPT ![k.x] = FbMarkUpdate(@, KeysOf(k.snap.notifs[k.x]))]
     /\ UNCHANGED <<users, nextId>>
     /\ Finish(c, TRUE, "marked")
     /\ Frame

\* how the call (x, y) starting on client c meets the calls in progress
Meets(c, x, y) ==
  IF \E d \in Clients \ {c} :
       Running(d) /\ {x, y} \cap {client[d].x, client[d].y} # {}
    THEN "shared"
  ELSE IF \E d \in Clients \ {c} : Running(d) THEN "disjoint"
  ELSE "none"
Worse(o1, o2) ==
  IF "shared" \in {o1, o2} THEN "shared"
  ELSE IF "disjoint" \in {o1, o2} THEN "disjoint" ELSE "none"

\* ------------------------------------------------------ channel messages
\* what the steps of a channel call leave alone
ChanFrame ==
  UNCHANGED <<backend, pre, pre2, overlap, calls, users, notifs, nextId, key, extVars,
              dmVars, subVars>>

\* the ids of the messages sendBastionChannelMessage stored
SentIds == {m \in MsgIds : msgs[m].sent}

\* arr.indexOf(username)
IndexOf(s, x) == IF Includes(s, x) THEN CHOOSE i \in 1..Len(s) :
                                          s[i] = x /\ \A j \in 1..(i - 1) : s[j] # x
                 ELSE 0

\* arr.splice(idx, 1)
Splice1(s, idx) == [i \in 1..(Len(s) - 1) |-> IF i < idx THEN s[i] ELSE s[i + 1]]

\* addReaction: the list of one emoji after the toggle
Toggle(list, username) ==
  IF IndexOf(list, username) = 0 THEN Append(list, username)
  ELSE Splice1(list, IndexOf(list, username))

\* msg.reactions[emoji], or [] where the emoji has no entry
ListOf(reactions, emoji) ==
  IF emoji \in DOMAIN reactions THEN reactions[emoji] ELSE <<>>

\* mutant: the entry of an emoji is kept when its list becomes empty
LsReactModifyKeepsEmpty(reactions, emoji, username) ==
  [e \in DOMAIN reactions \cup {emoji} |->
     IF e = emoji THEN Toggle(ListOf(reactions, emoji), username) ELSE reactions[e]]

\* addReaction (local): push or splice, and delete msg.reactions[emoji] when empty
LsReactModify(reactions, emoji, username) ==
  LET list == Toggle(ListOf(reactions, emoji), username)
  IN IF list = <<>>
       THEN [e \in DOMAIN reactions \ {emoji} |-> reactions[e]]
       ELSE [e \in DOMAIN reactions \cup {emoji} |->
               IF e = emoji THEN list ELSE reactions[e]]

\* addReaction (Firebase): the transaction on <msgId>/reactions/<emoji>; null
\* removes the node
FbReactUpdate(reactions, emoji, username) ==
  LET arr == Toggle(ListOf(reactions, emoji), username)
  IN IF Len(arr) > 0
       THEN [e \in DOMAIN reactions \cup {emoji} |->
               IF e = emoji THEN arr ELSE reactions[e]]
       ELSE [e \in DOMAIN reactions \ {emoji} |-> reactions[e]]

\* a channel call starts on client c: sendBastionChannelMessage(x), or
\* addReaction(y[1], y[2], x) for the message id y[1] and the emoji y[2]
LsChanBegin(c, op, x, y) ==
  /\ backend = "ls"
  /\ Begin(c, op, x, y, "lsChanGet")

FbChanBegin(c, op, x, y) ==
  /\ backend = "fb"
  /\ Begin(c, op, x, y, IF op = "sendmsg" THEN "fbMsgSet" ELSE "fbReactTxn")

\* msgs = getBastionChannelMessages(...), and the change made to that array
LsChanGet(c) ==
  LET k == client[c]
      id == k.y[1]
  IN /\ k.pc = "lsChanGet"
     /\ IF k.fn = "react" /\ ~msgs[id].sent
          THEN Finish(c, TRUE, "nomsg")
          ELSE /\ client' = [client EXCEPT
                  ![c].snap =
                    [msgs |-> IF k.fn = "react"
                                THEN [msgs EXCEPT ![id].reactions =
                                        LsReactModify(@, k.y[2], k.x)]
                                ELSE [msgs EXCEPT ![id] =
                                        [sent |-> TRUE, reactions |-> NoReactions]]],
                  ![c].pc = "lsChanSave"]
               /\ UNCHANGED <<hist, allOk>>
     /\ UNCHANGED msgs
     /\ ChanFrame

\* localStorage.setItem(key, JSON.stringify(msgs))
LsChanSave(c) ==
  LET k == client[c]
  IN /\ k.pc = "lsChanSave"
     /\ msgs' = k.snap.msgs
     /\ Finish(c, TRUE, IF k.fn = "react" THEN "reacted" ELSE "sentmsg")
     /\ ChanFrame

\* sendBastionChannelMessage (Firebase): msgRef.set(msg)
FbMsgSet(c) ==
  LET k == client[c]
  IN /\ k.pc = "fbMsgSet"
     /\ msgs' = [msgs EXCEPT ![k.y[1]] = [sent |-> TRUE, reactions |-> NoReactions]]
     /\ Finish(c, TRUE, "sentmsg")
     /\ ChanFrame

\* addReaction (Firebase): dbTransaction(path, current => ...)
FbReactTxn(c) ==
  LET k == client[c]
  IN /\ k.pc = "fbReactTxn"
     /\ msgs' = [msgs EXCEPT ![k.y[1]].reactions = FbReactUpdate(@, k.y[2], k.x)]
     /\ Finish(c, TRUE, "reacted")
     /\ ChanFrame

\* ------------------------------------------------------------- thread keys
\* a username is the sequence of its UTF-16 code units
Underscore == 95
LetterA == 97
NameChars == {Underscore, LetterA, LetterA + 1}
KeyNames == UNION {[1..n -> NameChars] : n \in 1..MaxNameLen}

\* 'fortized_dm_' and 'dms/'
LsDmPrefix == <<102, 111, 114, 116, 105, 122, 101, 100, 95, 100, 109, 95>>
FbDmPrefix == <<100, 109, 115, 47>>

\* the order of Array.prototype.sort without a comparator, on two strings: by
\* code unit, a proper prefix first
LexLess(s, t) ==
  \E i \in 1..(Len(t)) :
    /\ \A j \in 1..(i - 1) : j <= Len(s) /\ s[j] = t[j]
    /\ \/ i = Len(s) + 1
       \/ i <= Len(s) /\ s[i] < t[i]

\* mutant: the pair as the caller gave it
SortPairAsGiven(a, b) == <<a, b>>

\* [a, b].sort()
SortPair(a, b) == IF LexLess(b, a) THEN <<b, a>> ELSE <<a, b>>

\* pair.join(sep)
Join(pair, sep) == pair[1] \o sep \o pair[2]

\* getDMKey (local): 'fortized_dm_' + [userA, userB].sort().join('_')
getDMKey(userA, userB) == LsDmPrefix \o Join(SortPair(userA, userB), <<Underscore>>)

\* P.dm (Firebase): `dms/${[a, b].sort().join('__')}`
PDm(a, b) == FbDmPrefix \o Join(SortPair(a, b), <<Underscore, Underscore>>)

\* getDMMessages(a, b) and getDMMessages(b, a) compute their keys
LsKeyCall ==
  /\ backend = "ls"
  /\ key.ab = <<>>
  /\ key' = [key EXCEPT !.ab = getDMKey(key.a, key.b), !.ba = getDMKey(key.b, key.a)]
  /\ UNCHANGED <<backend, users, notifs, nextId, client, hist, pre, pre2, allOk,
                 overlap, calls, msgs, extVars, dmVars,
                 subVars>>

FbKeyCall ==
  /\ backend = "fb"
  /\ key.ab = <<>>
  /\ key' = [key EXCEPT !.ab = PDm(key.a, key.b), !.ba = PDm(key.b, key.a)]
  /\ UNCHANGED <<backend, users, notifs, nextId, client, hist, pre, pre2, allOk,
                 overlap, calls, msgs, extVars, dmVars,
                 subVars>>

\* --------------------------------------------------------- direct messages
\* the users that exchange direct messages, and the code units of a name
DmUsers == {"a", "b", "c"}
Code(name) ==
  CASE name = "a" -> <<LetterA>>
    [] name = "b" -> <<LetterA + 1>>
    [] name = "c" -> <<LetterA + 2>>
    [] name = "d" -> <<LetterA + 3>>
    [] OTHER -> <<LetterA + 25>>

\* what the steps of sendDMMessage leave alone
DmFrame ==
  UNCHANGED <<backend, pre, pre2, overlap, calls, msgs, key, extVars, users, notifs, nextId,
              subVars>>

\* the array under a thread key, [] where the key holds nothing
ThreadAt(store, k) == IF k \in DOMAIN store THEN store[k] ELSE <<>>

\* the store with value under the key k
WithThread(store, k, value) ==
  [j \in DOMAIN store \cup {k} |-> IF j = k THEN value ELSE store[j]]

\* s with x before position p
InsertAt(s, p, x) == SubSeq(s, 1, p - 1) \o <<x>> \o SubSeq(s, p, Len(s))

\* the message a call builds: id, from, timestamp (text and time are not modelled)
DmMsg(id, from, ts) == [id |-> id, from |-> from, ts |-> ts]

\* sendDMMessage (local) starts on a tab
LsDmBegin(c, x, y) ==
  /\ backend = "ls"
  /\ client[c].pc = "idle"
  /\ client' = [client EXCEPT ![c] = Started("dm", x, y, "lsDmGet")]
  /\ UNCHANGED <<users, notifs, nextId, hist, allOk, key, extVars, dmVars, subVars>>

\* msgs = getDMMessages(from, to); now = new Date(); msgs.push(msg): the tabs of
\* one browser read one clock
LsDmGet(c) ==
  LET k == client[c]
  IN /\ k.pc = "lsDmGet"
     /\ \E t \in clock[c]..MaxTime :
          /\ clock' = [d \in Clients |-> t]
          /\ client' = [client EXCEPT
               ![c].snap = Append(ThreadAt(dms, getDMKey(Code(k.x), Code(k.y))),
                                  DmMsg(calls, k.x, t)),
               ![c].pc = "lsDmSet"]
     /\ UNCHANGED <<hist, allOk, dms, dmKeys, dmIndex>>
     /\ DmFrame

\* localStorage.setItem(key, JSON.stringify(msgs)); the place of a new key among
\* the keys that key(i) enumerates is the browser's choice
LsDmSet(c) ==
  LET k == client[c]
      kk == getDMKey(Code(k.x), Code(k.y))
  IN /\ k.pc = "lsDmSet"
     /\ dms' = WithThread(dms, kk, k.snap)
     /\ IF Includes(dmKeys, kk) THEN UNCHANGED dmKeys
        ELSE \E p \in 1..(Len(dmKeys) + 1) : dmKeys' = InsertAt(dmKeys, p, kk)
     /\ Goto(c, "lsPushGet")
     /\ UNCHANGED <<dmIndex, clock>>
     /\ DmFrame

\* sendDMMessage (Firebase) starts on a client: now = new Date() and the message
FbDmBegin(c, x, y) ==
  /\ backend = "fb"
  /\ client[c].pc = "idle"
  /\ \E t \in clock[c]..MaxTime :
       /\ clock' = [clock EXCEPT ![c] = t]
       /\ client' = [client EXCEPT
            ![c] = [Started("dm", x, y, "fbDmSet") EXCEPT
                      !.snap = [msg |-> DmMsg(calls + 1, x, t)]]]
  /\ UNCHANGED <<users, notifs, nextId, hist, allOk, key, extVars, dms, dmKeys, dmIndex,
                 subVars>>

\* dbSet(`${P.dm(from, to)}/${msg.id}`, msg): the children of the thread are kept
\* in key order, and msg.id is Date.now().toString(36) followed by random digits,
\* so the message stands after those with an earlier time, before those with a
\* later one, and anywhere among those with the same
FbDmSet(c) ==
  LET k == client[c]
      kk == PDm(Code(k.x), Code(k.y))
      old == ThreadAt(dms, kk)
  IN /\ k.pc = "fbDmSet"
     /\ \E p \in 1..(Len(old) + 1) :
          /\ \A i \in 1..(p - 1) : old[i].ts <= k.snap.msg.ts
          /\ \A i \in p..Len(old) : old[i].ts >= k.snap.msg.ts
          /\ dms' = WithThread(dms, kk, InsertAt(old, p, k.snap.msg))
     /\ Goto(c, "fbDmIdxGet")
     /\ UNCHANGED <<dmKeys, dmIndex, clock>>
     /\ DmFrame

\* [myIdx, theirIdx] = [dbGet(P.dmIndex(from)), dbGet(P.dmIndex(to))]
FbDmIdxGet(c) ==
  LET k == client[c]
  IN /\ k.pc = "fbDmIdxGet"
     /\ client' = [client EXCEPT
          ![c].snap = [my |-> dmIndex[k.x], their |-> dmIndex[k.y]],
          ![c].pc = "fbDmIdxSet"]
     /\ UNCHANGED <<hist, allOk, dmVars>>
     /\ DmFrame

\* updateIdx: filter the partner out, unshift it, slice(0, 30)
UpdateIdx(partner, current) ==
  Slice(<<partner>> \o Without(current, partner), PartnerCap)

\* the two dbSet(P.dmIndex(...), ...) of updateIdx
FbDmIdxSet(c) ==
  LET k == client[c]
  IN /\ k.pc = "fbDmIdxSet"
     /\ dmIndex' = [dmIndex EXCEPT ![k.x] = UpdateIdx(k.y, k.snap.my),
                                   ![k.y] = UpdateIdx(k.x, k.snap.their)]
     /\ Goto(c, "notify")
     /\ UNCHANGED <<dms, dmKeys, clock>>
     /\ DmFrame

\* the array with m after the elements whose timestamp is not later
InsertByTs(sorted, m) ==
  LET n == Cardinality({i \in 1..Len(sorted) : sorted[i].ts <= m.ts})
  IN InsertAt(sorted, n + 1, m)

\* Object.values(data).sort((a, b) => new Date(a.timestamp) - new Date(b.timestamp))
RECURSIVE SortByTs(_)
SortByTs(s) ==
  IF s = <<>> THEN <<>>
  ELSE InsertByTs(SortByTs(SubSeq(s, 1, Len(s) - 1)), s[Len(s)])

\* getDMMessages(a, b) on a store
GetDMMessages(store, a, b) ==
  IF backend = "ls" THEN ThreadAt(store, getDMKey(Code(a), Code(b)))
  ELSE SortByTs(ThreadAt(store, PDm(Code(a), Code(b))))

\* str.split('_')
RECURSIVE Split(_)
Split(s) ==
  IF \A i \in 1..Len(s) : s[i] # Underscore THEN <<s>>
  ELSE LET i == CHOOSE i \in 1..Len(s) :
                  s[i] = Underscore /\ \A j \in 1..(i - 1) : s[j] # Underscore
       IN <<SubSeq(s, 1, i - 1)>> \o Split(SubSeq(s, i + 1, Len(s)))

\* key.startsWith(prefix)
StartsWith(s, prefix) ==
  Len(s) >= Len(prefix) /\ SubSeq(s, 1, Len(prefix)) = prefix

\* getRecentDMPartners (local): the scan of the keys of localStorage
RECURSIVE LsRecentDMPartners(_, _)
LsRecentDMPartners(keys, username) ==
  IF keys = <<>> THEN <<>>
  ELSE LET partners == LsRecentDMPartners(SubSeq(keys, 1, Len(keys) - 1), username)
           kk == keys[Len(keys)]
           parts == Split(SubSeq(kk, Len(LsDmPrefix) + 1, Len(kk)))
           others == Without(parts, username)
       IN IF StartsWith(kk, LsDmPrefix) /\ Includes(parts, username)
             /\ others # <<>> /\ ~Includes(partners, others[1])
            THEN Append(partners, others[1])
            ELSE partners

\* getRecentDMPartners(u) on a store, as code units
GetRecentDMPartners(store, u) ==
  IF backend = "ls" THEN LsRecentDMPartners(store.dmKeys, Code(u))
  ELSE [i \in 1..Len(store.dmIndex[u]) |-> Code(store.dmIndex[u][i])]

\* --------------------------------------------------- session subscriptions
\* the callbacks objects passed to startPolling: all callbacks, or none
CallbackShapes == {[notif |-> TRUE, dm |-> TRUE, status |-> TRUE],
                   [notif |-> FALSE, dm |-> FALSE, status |-> FALSE]}
SubUsers == {"a"}
StatusValues == {"online", "away"}

\* what a subscription call, a timer tick and a listener event leave alone
SubFrame ==
  UNCHANGED <<backend, users, notifs, nextId, client, allOk, overlap, msgs, key, extVars,
              dmVars>>

\* a subscription call returns
Returned(op, username, kind) ==
  hist' = LastTwo(Append(hist, Entry(op, username, username, TRUE, kind)))

\* the callback of the callbacks object owner is invoked, for the notifications ids
Invoke(ids, times, owner) ==
  fired' = [count |-> [i \in DOMAIN fired.count \cup ids |->
                         (IF i \in DOMAIN fired.count THEN fired.count[i] ELSE 0)
                         + (IF i \in ids THEN 1 ELSE 0)],
            n |-> fired.n + times,
            owner |-> owner]

\* mutant: the timer keeps running
ClearIntervalKeeps(timers, id) == timers

\* clearInterval(id)
ClearInterval(timers, id) == {t \in timers : t.id # id}

\* startPolling (local)
LsStartPolling(username, cb) ==
  LET g == session.gen + 1
      h == session.handles + 1
  IN /\ backend = "ls"
     /\ session' = [session EXCEPT
          !.onNewNotification = IF cb.notif THEN g ELSE @,
          !.onNewDM = IF cb.dm THEN g ELSE @,
          !.timers = ClearInterval(@, session.pollInterval)
                       \cup {[id |-> h, username |-> username]},
          !.lastNotifCount = UnreadCount(notifs[username]),
          !.pollInterval = h,
          !.handles = h,
          !.gen = g,
          !.subscribed = TRUE,
          !.since = nextId]
     /\ Returned("start", username, "started")
     /\ UNCHANGED <<fired, statuses>>
     /\ SubFrame

\* stopPolling (local): if (pollInterval) clearInterval(pollInterval)
LsStopPolling ==
  /\ backend = "ls"
  /\ session' = [session EXCEPT
       !.timers = IF session.pollInterval # 0
                    THEN ClearInterval(@, session.pollInterval) ELSE @,
       !.subscribed = FALSE]
  /\ Returned("stop", "z", "stopped")
  /\ UNCHANGED <<fired, statuses>>
  /\ SubFrame

\* the callback of setInterval runs for the timer t
LsTick(t) ==
  LET count == UnreadCount(notifs[t.username])
      newNotifs == Slice(notifs[t.username], count - session.lastNotifCount)
      ids == {newNotifs[i].id : i \in 1..Len(newNotifs)}
  IN /\ backend = "ls"
     /\ t \in session.timers
     /\ IF count > session.lastNotifCount
          THEN /\ session' = [session EXCEPT !.lastNotifCount = count]
               /\ IF session.onNewNotification # 0
                    THEN Invoke(ids, Len(newNotifs), session.onNewNotification)
                    ELSE UNCHANGED fired
          ELSE UNCHANGED <<session, fired>>
     /\ UNCHANGED <<hist, pre, pre2, calls, statuses>>
     /\ SubFrame

\* mutant: the listeners stay attached
DetachKeeps(attached, listeners) == attached

\* ref.off(event, handler) for every listener of _listeners
Detach(attached, listeners) ==
  [h \in DOMAIN attached \ {listeners[i] : i \in 1..Len(listeners)} |-> attached[h]]

\* startPolling (Firebase): _callbacks = callbacks; stopPolling(); the three
\* ref.on(...) with the handlers pushed on _listeners
FbStartPolling(username, cb) ==
  LET g == session.gen + 1
      h == session.handles
      kept == Detach(session.attached, session.listeners)
      new == [i \in {h + 1, h + 2, h + 3} |->
                [kind |-> CASE i = h + 1 -> "notif" [] i = h + 2 -> "dmIndex"
                            [] OTHER -> "status",
                 user |-> username,
                 gen |-> g,
                 seen |-> CASE i = h + 1 -> {} [] i = h + 2 -> <<>>
                            [] OTHER -> statuses]]
  IN /\ backend = "fb"
     /\ session' = [session EXCEPT
          !.callbacks = [gen |-> g, notif |-> cb.notif, dm |-> cb.dm,
                         status |-> cb.status],
          !.attached = [i \in DOMAIN kept \cup DOMAIN new |->
                          IF i \in DOMAIN new THEN new[i] ELSE kept[i]],
          !.listeners = <<h + 1, h + 2, h + 3>>,
          !.handles = h + 3,
          !.gen = g,
          !.subscribed = TRUE,
          !.since = nextId]
     /\ Returned("start", username, "started")
     /\ UNCHANGED <<fired, statuses>>
     /\ SubFrame

\* stopPolling (Firebase)
FbStopPolling ==
  /\ backend = "fb"
  /\ session' = [session EXCEPT
       !.attached = Detach(@, session.listeners),
       !.listeners = <<>>,
       !.subscribed = FALSE]
  /\ Returned("stop", "z", "stopped")
  /\ UNCHANGED <<fired, statuses>>
  /\ SubFrame

\* what an event leaves alone
EventFrame == UNCHANGED <<hist, pre, pre2, calls, statuses>> /\ SubFrame

\* child_added on notifications/<user>, for a child the listener h has not had:
\* if (!n || n.read) return; _callbacks.onNewNotification?.(n)
FbChildAdded(h) ==
  /\ backend = "fb"
  /\ h \in DOMAIN session.attached
  /\ session.attached[h].kind = "notif"
  /\ \E i \in 1..Len(notifs[session.attached[h].user]) :
       LET n == notifs[session.attached[h].user][i]
       IN /\ n.id \notin session.attached[h].seen
          /\ session' = [session EXCEPT !.attached[h].seen = @ \cup {n.id}]
          /\ IF ~n.read /\ session.callbacks.notif
               THEN Invoke({n.id}, 1, session.callbacks.gen)
               ELSE UNCHANGED fired
  /\ EventFrame

\* value on dmIndex/<user>, once the listener is attached and on every change:
\* _callbacks.onDMIndexChange?.()
FbValue(h) ==
  /\ backend = "fb"
  /\ h \in DOMAIN session.attached
  /\ session.attached[h].kind = "dmIndex"
  /\ session.attached[h].seen # <<dmIndex[session.attached[h].user]>>
  /\ session' = [session EXCEPT
       !.attached[h].seen = <<dmIndex[session.attached[h].user]>>]
  /\ IF session.callbacks.dm THEN Invoke({}, 1, session.callbacks.gen)
     ELSE UNCHANGED fired
  /\ EventFrame

\* child_changed on statuses, for a child whose value differs from the one the
\* listener h had (a child it did not have is child_added, which has no handler):
\* _callbacks.onStatusChange?.({ username, status })
FbChildChanged(h) ==
  /\ backend = "fb"
  /\ h \in DOMAIN session.attached
  /\ session.attached[h].kind = "status"
  /\ \E u \in Names :
       /\ statuses[u] # session.attached[h].seen[u]
       /\ session' = [session EXCEPT !.attached[h].seen[u] = statuses[u]]
       /\ IF session.attached[h].seen[u] # "none" /\ session.callbacks.status
            THEN Invoke({}, 1, session.callbacks.gen)
            ELSE UNCHANGED fired
  /\ EventFrame

\* setStatus (Firebase): dbSet(P.status(username), status)
FbSetStatus(username, status) ==
  /\ backend = "fb"
  /\ statuses[username] # status
  /\ statuses' = [statuses EXCEPT ![username] = status]
  /\ Returned("status", username, "set")
  /\ UNCHANGED <<session, fired>>
  /\ SubFrame

\* ------------------------------------------------------ scoped listeners
\* the paths listenBastionChannel and listenDM attach to: the one channel, and
\* the thread of two users
ChannelPath == <<>>
ListenPairs == {<<"a", "b">>, <<"b", "a">>}

\* ref.on('child_added', ...) outside startPolling: the handler is attached at the
\* database and is not pushed on _listeners; the function returned is known by
\* the handler it closes over
Listen(kind, path) ==
  LET h == session.handles + 1
  IN /\ backend = "fb"
     /\ session' = [session EXCEPT
          !.attached = [i \in DOMAIN @ \cup {h} |->
                          IF i = h THEN [kind |-> kind, user |-> path, gen |-> 0,
                                         seen |-> {}]
                          ELSE @[i]],
          !.delivered = [i \in DOMAIN @ \cup {h} |-> IF i = h THEN <<>> ELSE @[i]],
          !.handles = h]
     /\ UNCHANGED <<fired, statuses>>
     /\ SubFrame

\* listenBastionChannel(bastionId, channelId, callback)
FbListenBastionChannel ==
  /\ Listen("channel", ChannelPath)
  /\ Returned("listen", "z", "channel")

\* listenDM(user1, user2, callback)
FbListenDM(user1, user2) ==
  /\ Listen("thread", PDm(Code(user1), Code(user2)))
  /\ Returned("listen", user1, "thread")

\* mutant: ref.off('child_added') without the handler, which detaches every
\* child_added listener of the path
OffPath(attached, h) ==
  [i \in {j \in DOMAIN attached :
            h \notin DOMAIN attached \/ attached[j].kind # attached[h].kind
            \/ attached[j].user # attached[h].user} |-> attached[i]]

\* ref.off('child_added', handler)
Off(attached, h) == [i \in DOMAIN attached \ {h} |-> attached[i]]

\* the function listenBastionChannel or listenDM returned for the handler h is called
FbUnlisten(h) ==
  /\ backend = "fb"
  /\ h \in DOMAIN session.delivered
  /\ session' = [session EXCEPT !.attached = Off(@, h), !.cancelled = @ \cup {h}]
  /\ Returned("unlisten", "z", "detached")
  /\ UNCHANGED <<fired, statuses>>
  /\ SubFrame

\* the ids of the children under the path of a scoped listener
ChildrenAt(kind, path) ==
  IF kind = "channel" THEN SentIds
  ELSE {ThreadAt(dms, path)[i].id : i \in 1..Len(ThreadAt(dms, path))}

\* child_added on the path of the scoped listener h, for a child it has not had:
\* callback?.(snap.val())
FbScopedChildAdded(h) ==
  /\ backend = "fb"
  /\ h \in DOMAIN session.attached
  /\ session.attached[h].kind \in {"channel", "thread"}
  /\ \E m \in ChildrenAt(session.attached[h].kind, session.attached[h].user)
                \ session.attached[h].seen :
       session' = [session EXCEPT !.attached[h].seen = @ \cup {m},
                                  !.delivered[h] = Append(@, m)]
  /\ UNCHANGED fired
  /\ EventFrame

\* ------------------------------------------------------------ channel log
\* the array of one bastion channel as getBastionChannelMessages returns it; a
\* message is known by its id, the number of the call that sent it (from, text
\* and the times are not modelled)

\* what the steps of a send to the channel log leave alone
LogFrame ==
  UNCHANGED <<backend, pre, pre2, overlap, calls, users, notifs, nextId, msgs, key,
              dmVars, subVars>>

\* sendBastionChannelMessage starts on client c
LsLogBegin(c) ==
  /\ backend = "ls"
  /\ client[c].pc = "idle"
  /\ client' = [client EXCEPT ![c] = Started("sendmsg", "a", "z", "lsLogGet")]
  /\ UNCHANGED <<users, notifs, nextId, hist, allOk, key, extVars, dmVars, subVars>>

FbLogBegin(c) ==
  /\ backend = "fb"
  /\ client[c].pc = "idle"
  /\ client' = [client EXCEPT ![c] = Started("sendmsg", "a", "z", "fbLogSet")]
  /\ UNCHANGED <<users, notifs, nextId, hist, allOk, key, extVars, dmVars, subVars>>

\* msgs = getBastionChannelMessages(bastionId, channelName); msgs.push(msg)
LsLogGet(c) ==
  /\ client[c].pc = "lsLogGet"
  /\ client' = [client EXCEPT ![c].snap = Append(chanLog, calls),
                              ![c].pc = "lsLogSave"]
  /\ UNCHANGED <<hist, allOk, ext>>
  /\ LogFrame

\* localStorage.setItem(key, JSON.stringify(msgs)); return msg
LsLogSave(c) ==
  /\ client[c].pc = "lsLogSave"
  /\ ext' = [ext EXCEPT !.chanLog = client[c].snap]
  /\ Finish(c, TRUE, "sentmsg")
  /\ LogFrame

\* msgRef = db.ref(...).push(); msgRef.set(msg): the push keys of one client
\* are in the order of its calls, and so are its timestamps
FbLogSet(c) ==
  /\ client[c].pc = "fbLogSet"
  /\ ext' = [ext EXCEPT !.chanLog = Append(chanLog, calls)]
  /\ Finish(c, TRUE, "sentmsg")
  /\ LogFrame

\* ------------------------------------------------------------ registration
\* the code units of 'A', 'Z', 'a', 'z', '0', '9' and of the space
UpperA == 65
UpperZ == 90
LetterZ == 122
Digit0 == 48
Digit9 == 57
Space == 32
\* register: password.length < 6 is rejected
MinPasswordLen == 6

\* String.prototype.toLowerCase, on one code unit of the ASCII range
ToLowerCase(ch) == IF ch >= UpperA /\ ch <= UpperZ THEN ch + (LetterA - UpperA) ELSE ch

\* username.trim().toLowerCase().replace(/[^a-z0-9_]/g, ''): the replace removes
\* the white space that trim removes
Normalize(raw) ==
  SelectSeq([i \in 1..Len(raw) |-> ToLowerCase(raw[i])],
            LAMBDA ch : \/ (ch >= LetterA /\ ch <= LetterZ)
                        \/ (ch >= Digit0 /\ ch <= Digit9)
                        \/ ch = Underscore)

\* the usernames typed: "bob", "Bob", " bo b", "bo"
RawNames == {<<98, 111, 98>>, <<UpperA + 1, 111, 98>>, <<Space, 98, 111, Space, 98>>,
             <<98, 111>>}
\* the passwords typed: the client that typed it, and its length
Passwords == [owner : Clients, len : {MinPasswordLen - 1, MinPasswordLen}]

\* what the steps of register leave alone
RegFrame ==
  UNCHANGED <<backend, pre, pre2, overlap, calls, users, notifs, nextId, msgs, key,
              dmVars, subVars>>

\* register(username, password) starts on client c: the username is normalised,
\* and the call returns at once when the username or the password is too short
FbRegisterBegin(c, raw, password) ==
  LET username == Normalize(raw)
  IN /\ backend = "fb"
     /\ client[c].pc = "idle"
     /\ IF Len(username) < MinNameLen \/ password.len < MinPasswordLen
          THEN /\ client' = [client EXCEPT ![c] = Idle]
               /\ hist' = LastTwo(Append(hist,
                            Entry("register", username, password, FALSE, "invalid")))
               /\ allOk' = FALSE
          ELSE /\ client' = [client EXCEPT
                    ![c] = Started("register", username, password, "regGet")]
               /\ UNCHANGED <<hist, allOk>>
     /\ UNCHANGED <<users, notifs, nextId, key, extVars, dmVars, subVars>>

\* existing = await getUserByName(username); if (existing) return { ok: false }
FbRegisterGet(c) ==
  /\ client[c].pc = "regGet"
  /\ IF client[c].x \in DOMAIN accounts THEN Finish(c, FALSE, "taken")
     ELSE Goto(c, "regSet")
  /\ UNCHANGED ext
  /\ RegFrame

\* await dbSet(P.user(username), user); return { ok: true, user }
FbRegisterSet(c) ==
  /\ client[c].pc = "regSet"
  /\ ext' = [ext EXCEPT !.accounts =
               [n \in DOMAIN accounts \cup {client[c].x} |->
                  IF n = client[c].x THEN [password |-> client[c].y]
                  ELSE accounts[n]]]
  /\ Finish(c, TRUE, "registered")
  /\ RegFrame

\* ---------------------------------------------------------- specifications
Init ==
  /\ backend \in Backends
  /\ users = [n \in Names |-> EmptyUser]
  /\ notifs = [n \in Names |-> <<>>]
  /\ nextId = 1
  /\ client = [c \in Clients |-> Idle]
  /\ hist = <<>>
  /\ pre = [users |-> [n \in Names |-> EmptyUser], notifs |-> [n \in Names |-> <<>>],
            nextId |-> 1, msgs |-> [m \in MsgIds \cup {NoSuchId} |-> NoNode],
            dms |-> NoThreads, dmKeys |-> <<>>, dmIndex |-> [n \in Names |-> <<>>]]
  /\ pre2 = pre
  /\ allOk = TRUE
  /\ overlap = "none"
  /\ calls = 0
  /\ msgs = [m \in MsgIds \cup {NoSuchId} |-> NoNode]
  /\ key = NoKey
  /\ dms = NoThreads
  /\ dmKeys = <<>>
  /\ dmIndex = [n \in Names |-> <<>>]
  /\ clock = [c \in Clients |-> 1]
  /\ statuses = [n \in Names |-> "none"]
  /\ session = NoSession
  /\ fired = NoneFired
  /\ ext = NoExt

\* one call at a time: the next call starts when the last one has returned
SeqFrame ==
  /\ AllIdle
  /\ calls < MaxCalls
  /\ pre' = Store
  /\ pre2' = pre
  /\ calls' = calls + 1
  /\ UNCHANGED <<backend, overlap, msgs>>

LsSeqCall == SeqFrame /\ \E op \in Ops, x, y \in SeqArgs : LsBegin(1, op, x, y)

FbSeqCall == SeqFrame /\ \E op \in Ops, x, y \in SeqArgs : FbBegin(1, op, x, y)

Next ==
  \/ LsSeqCall
  \/ LsGetTo(1)
  \/ LsGetFrom(1)
  \/ LsGetUsers(1)
  \/ LsSave(1)
  \/ LsPushGet(1)
  \/ LsPushSave(1)
  \/ FbSeqCall
  \/ FbRead1(1)
  \/ FbRead2(1)
  \/ FbWrite1(1)
  \/ FbWrite2(1)
  \/ FbNotify(1)

Spec == Init /\ [][Next]_vars

\* several clients: a call between two users starts on any idle client at any
\* time (the calls that name one user twice are those of Spec)
ConcFrame(c, op, x, y) ==
  /\ calls < MaxConcCalls
  /\ calls' = calls + 1
  /\ overlap' = Worse(overlap, Meets(c, x, y))
  /\ UNCHANGED <<backend, pre, pre2, msgs>>

LsConcCall ==
  \E c \in Clients, op \in Ops, p \in ConcArgs :
    LsBegin(c, op, p[1], p[2]) /\ ConcFrame(c, op, p[1], p[2])

FbConcCall ==
  \E c \in Clients, op \in Ops, p \in ConcArgs :
    FbBegin(c, op, p[1], p[2]) /\ ConcFrame(c, op, p[1], p[2])

\* the tabs of one browser, on the local-storage backend
NextLsConc ==
  \/ LsConcCall
  \/ \E c \in Clients : LsGetTo(c)
  \/ \E c \in Clients : LsGetFrom(c)
  \/ \E c \in Clients : LsGetUsers(c)
  \/ \E c \in Clients : LsSave(c)
  \/ \E c \in Clients : LsPushGet(c)
  \/ \E c \in Clients : LsPushSave(c)

InitLs == Init /\ backend = "ls"

SpecLsConc == InitLs /\ [][NextLsConc]_vars

\* the clients of one database, on the Firebase backend
NextFbConc ==
  \/ FbConcCall
  \/ \E c \in Clients : FbRead1(c)
  \/ \E c \in Clients : FbRead2(c)
  \/ \E c \in Clients : FbWrite1(c)
  \/ \E c \in Clients : FbWrite2(c)
  \/ \E c \in Clients : FbNotify(c)

InitFb == Init /\ backend = "fb"

SpecFbConc == InitFb /\ [][NextFbConc]_vars

\* ------------------------------------------- notification specifications
\* a call of pushNotification / addNotification or of markNotificationsRead starts
LsNotifBegin(c, op, x, y) ==
  /\ backend = "ls"
  /\ Begin(c, op, x, y, IF op = "push" THEN "lsPushGet" ELSE "lsMarkGet")

FbNotifBegin(c, op, x, y) ==
  /\ backend = "fb"
  /\ Begin(c, op, x, y, IF op = "push" THEN "notify" ELSE "fbMarkRead")

\* the calls of a run of notification calls: pushes from b to a and to a name
\* without a record, markNotificationsRead for both
NotifCalls ==
  {<<"push", "b", "a">>, <<"push", "b", "z">>, <<"mark", "a", "a">>, <<"mark", "z", "z">>}

\* the calls of a run that fills the log of a
CapCalls == {<<"push", "b", "a">>, <<"mark", "a", "a">>}

\* one call at a time, at most max of them
NotifFrame(max) ==
  /\ AllIdle
  /\ calls < max
  /\ pre' = Store
  /\ pre2' = pre
  /\ calls' = calls + 1
  /\ UNCHANGED <<backend, overlap, msgs>>

LsNotifCall ==
  NotifFrame(MaxNotifCalls) /\ \E k \in NotifCalls : LsNotifBegin(1, k[1], k[2], k[3])

FbNotifCall ==
  NotifFrame(MaxNotifCalls) /\ \E k \in NotifCalls : FbNotifBegin(1, k[1], k[2], k[3])

NextNotif ==
  \/ LsNotifCall
  \/ LsPushGet(1)
  \/ LsPushSave(1)
  \/ LsMarkGet(1)
  \/ LsMarkSave(1)
  \/ FbNotifCall
  \/ FbNotify(1)
  \/ FbMarkRead(1)
  \/ FbMarkWrite(1)

SpecNotif == Init /\ [][NextNotif]_vars

LsCapCall ==
  NotifFrame(MaxPushes) /\ \E k \in CapCalls : LsNotifBegin(1, k[1], k[2], k[3])

FbCapCall ==
  NotifFrame(MaxPushes) /\ \E k \in CapCalls : FbNotifBegin(1, k[1], k[2], k[3])

NextCap ==
  \/ LsCapCall
  \/ LsPushGet(1)
  \/ LsPushSave(1)
  \/ LsMarkGet(1)
  \/ LsMarkSave(1)
  \/ FbCapCall
  \/ FbNotify(1)
  \/ FbMarkRead(1)
  \/ FbMarkWrite(1)

SpecCap == Init /\ [][NextCap]_vars

\* the friend calls of a and b with markNotificationsRead between them, one call
\* at a time
FriendMarkArgs == {"a", "b"}

LsFriendMarkCall ==
  /\ SeqFrame
  /\ \/ \E op \in Ops, x, y \in FriendMarkArgs : LsBegin(1, op, x, y)
     \/ \E u \in FriendMarkArgs : LsNotifBegin(1, "mark", u, u)

FbFriendMarkCall ==
  /\ SeqFrame
  /\ \/ \E op \in Ops, x, y \in FriendMarkArgs : FbBegin(1, op, x, y)
     \/ \E u \in FriendMarkArgs : FbNotifBegin(1, "mark", u, u)

NextFriendMark ==
  \/ LsFriendMarkCall
  \/ LsGetTo(1)
  \/ LsGetFrom(1)
  \/ LsGetUsers(1)
  \/ LsSave(1)
  \/ LsPushGet(1)
  \/ LsPushSave(1)
  \/ LsMarkGet(1)
  \/ LsMarkSave(1)
  \/ FbFriendMarkCall
  \/ FbRead1(1)
  \/ FbRead2(1)
  \/ FbWrite1(1)
  \/ FbWrite2(1)
  \/ FbNotify(1)
  \/ FbMarkRead(1)
  \/ FbMarkWrite(1)

SpecFriendMark == Init /\ [][NextFriendMark]_vars

\* the tabs of one browser on the local-storage backend: friend calls between a
\* and b, pushes and markNotificationsRead, started on any idle tab at any time
MarkConcFriendCalls ==
  {<<"send", "a", "b">>, <<"send", "b", "a">>, <<"accept", "a", "b">>,
   <<"accept", "b", "a">>, <<"decline", "a", "b">>, <<"remove", "a", "b">>}

MarkConcNotifCalls ==
  {<<"push", "b", "a">>, <<"mark", "a", "a">>, <<"mark", "b", "b">>}

MarkConcFrame(c, x, y) ==
  /\ calls < MaxMarkCalls
  /\ calls' = calls + 1
  /\ overlap' = Worse(overlap, Meets(c, x, y))
  /\ UNCHANGED <<backend, pre, pre2, msgs>>

LsMarkConcCall ==
  \E c \in Clients :
    \/ \E k \in MarkConcFriendCalls :
         LsBegin(c, k[1], k[2], k[3]) /\ MarkConcFrame(c, k[2], k[3])
    \/ \E k \in MarkConcNotifCalls :
         LsNotifBegin(c, k[1], k[2], k[3]) /\ MarkConcFrame(c, k[2], k[3])

NextLsMarkConc ==
  \/ LsMarkConcCall
  \/ \E c \in Clients : LsGetTo(c)
  \/ \E c \in Clients : LsGetFrom(c)
  \/ \E c \in Clients : LsGetUsers(c)
  \/ \E c \in Clients : LsSave(c)
  \/ \E c \in Clients : LsPushGet(c)
  \/ \E c \in Clients : LsPushSave(c)
  \/ \E c \in Clients : LsMarkGet(c)
  \/ \E c \in Clients : LsMarkSave(c)

SpecLsMarkConc == InitLs /\ [][NextLsMarkConc]_vars

\* the channel calls, one at a time: a send gets the next id; a reaction names a
\* stored message or an id the channel does not have
ChanCalls ==
  {<<"sendmsg", "a", <<m, "e1">>>> :
      m \in {m \in MsgIds : \A n \in MsgIds : n < m <=> n \in SentIds}}
  \cup {<<"react", u, <<m, e>>>> :
           u \in Reactors, m \in SentIds \cup {NoSuchId}, e \in Emojis}

LsChanCall ==
  NotifFrame(MaxReactCalls) /\ \E k \in ChanCalls : LsChanBegin(1, k[1], k[2], k[3])

FbChanCall ==
  NotifFrame(MaxReactCalls) /\ \E k \in ChanCalls : FbChanBegin(1, k[1], k[2], k[3])

NextReact ==
  \/ LsChanCall
  \/ LsChanGet(1)
  \/ LsChanSave(1)
  \/ FbChanCall
  \/ FbMsgSet(1)
  \/ FbReactTxn(1)

SpecReact == Init /\ [][NextReact]_vars

\* two clients on one channel: client 1 makes the calls that set the channel up,
\* one at a time; client 2 starts one call while a call of client 1 is in
\* progress, and the run ends with that pair
RaceFrame(c, y) ==
  /\ calls < MaxRaceCalls
  /\ calls' = calls + 1
  /\ overlap = "none"
  /\ IF c = 1
       THEN /\ AllIdle
            /\ pre' = Store
            /\ pre2' = pre
            /\ UNCHANGED overlap
       ELSE /\ Running(1)
            /\ overlap' = IF client[1].y = y THEN "shared" ELSE "disjoint"
            /\ UNCHANGED <<pre, pre2>>
  /\ UNCHANGED <<backend, msgs>>

\* the channel calls of the two clients: the send of message 1, and reactions of
\* a and b on the stored messages
ReactRaceCalls ==
  {<<"sendmsg", "a", <<1, "e1">>>>}
  \cup {<<"react", u, <<m, e>>>> : u \in Reactors, m \in SentIds, e \in Emojis}

LsReactRaceCall ==
  \E c \in Clients : \E k \in ReactRaceCalls :
    LsChanBegin(c, k[1], k[2], k[3]) /\ RaceFrame(c, k[3])

FbReactRaceCall ==
  \E c \in Clients : \E k \in ReactRaceCalls :
    FbChanBegin(c, k[1], k[2], k[3]) /\ RaceFrame(c, k[3])

NextReactRace ==
  \/ LsReactRaceCall
  \/ \E c \in Clients : LsChanGet(c)
  \/ \E c \in Clients : LsChanSave(c)
  \/ FbReactRaceCall
  \/ \E c \in Clients : FbMsgSet(c)
  \/ \E c \in Clients : FbReactTxn(c)

SpecReactRace == Init /\ [][NextReactRace]_vars

\* the notification calls of the two clients: pushes from b and from c to a, and
\* markNotificationsRead for a
PushRaceCalls ==
  {<<"push", "b", "a">>, <<"push", "c", "a">>, <<"mark", "a", "a">>}

LsPushRaceCall ==
  \E c \in Clients : \E k \in PushRaceCalls :
    LsNotifBegin(c, k[1], k[2], k[3]) /\ RaceFrame(c, k[3])

FbPushRaceCall ==
  \E c \in Clients : \E k \in PushRaceCalls :
    FbNotifBegin(c, k[1], k[2], k[3]) /\ RaceFrame(c, k[3])

NextPushRace ==
  \/ LsPushRaceCall
  \/ \E c \in Clients : LsPushGet(c)
  \/ \E c \in Clients : LsPushSave(c)
  \/ \E c \in Clients : LsMarkGet(c)
  \/ \E c \in Clients : LsMarkSave(c)
  \/ FbPushRaceCall
  \/ \E c \in Clients : FbNotify(c)
  \/ \E c \in Clients : FbMarkRead(c)
  \/ \E c \in Clients : FbMarkWrite(c)

SpecPushRace == Init /\ [][NextPushRace]_vars

\* the thread keys of every pair of usernames of at most MaxNameLen characters
InitKey ==
  /\ backend \in Backends
  /\ users = [n \in Names |-> EmptyUser]
  /\ notifs = [n \in Names |-> <<>>]
  /\ nextId = 1
  /\ client = [c \in Clients |-> Idle]
  /\ hist = <<>>
  /\ pre = [users |-> users, notifs |-> notifs, nextId |-> 1,
            msgs |-> [m \in MsgIds \cup {NoSuchId} |-> NoNode],
            dms |-> NoThreads, dmKeys |-> <<>>, dmIndex |-> [n \in Names |-> <<>>]]
  /\ pre2 = pre
  /\ allOk = TRUE
  /\ overlap = "none"
  /\ calls = 0
  /\ msgs = [m \in MsgIds \cup {NoSuchId} |-> NoNode]
  /\ \E a \in KeyNames, b \in KeyNames : key = [NoKey EXCEPT !.a = a, !.b = b]
  /\ dms = NoThreads
  /\ dmKeys = <<>>
  /\ dmIndex = [n \in Names |-> <<>>]
  /\ clock = [c \in Clients |-> 1]
  /\ statuses = [n \in Names |-> "none"]
  /\ session = NoSession
  /\ fired = NoneFired
  /\ ext = NoExt

NextKey ==
  \/ LsKeyCall
  \/ FbKeyCall

SpecKey == InitKey /\ [][NextKey]_vars

\* direct messages, one call at a time: a sends from client 1, b and c from
\* client 2
DmCalls == {<<x, y>> \in DmUsers \X DmUsers : x # y}
DmClient(x) == IF x = "a" THEN 1 ELSE 2

DmSeqFrame ==
  /\ AllIdle
  /\ calls < MaxDmCalls
  /\ calls' = calls + 1
  /\ pre' = Store
  /\ pre2' = pre
  /\ UNCHANGED <<backend, overlap, msgs>>

LsDmCall == DmSeqFrame /\ \E k \in DmCalls : LsDmBegin(DmClient(k[1]), k[1], k[2])

FbDmCall == DmSeqFrame /\ \E k \in DmCalls : FbDmBegin(DmClient(k[1]), k[1], k[2])

NextDm ==
  \/ LsDmCall
  \/ \E c \in Clients : LsDmGet(c)
  \/ \E c \in Clients : LsDmSet(c)
  \/ \E c \in Clients : LsPushGet(c)
  \/ \E c \in Clients : LsPushSave(c)
  \/ FbDmCall
  \/ \E c \in Clients : FbDmSet(c)
  \/ \E c \in Clients : FbDmIdxGet(c)
  \/ \E c \in Clients : FbDmIdxSet(c)
  \/ \E c \in Clients : FbNotify(c)

SpecDm == Init /\ [][NextDm]_vars

\* the page that subscribes: startPolling, stopPolling, pushes to a and
\* markNotificationsRead, one call at a time; the timer ticks and the listener
\* events come at any time
SubNotifCalls == {<<"push", "b", "a">>, <<"mark", "a", "a">>}

LsSubCall ==
  /\ NotifFrame(MaxSubCalls)
  /\ \/ \E k \in SubNotifCalls : LsNotifBegin(1, k[1], k[2], k[3])
     \/ \E u \in SubUsers, cb \in CallbackShapes : LsStartPolling(u, cb)
     \/ LsStopPolling

FbSubCall ==
  /\ NotifFrame(MaxSubCalls)
  /\ \/ \E k \in SubNotifCalls : FbNotifBegin(1, k[1], k[2], k[3])
     \/ \E u \in SubUsers, cb \in CallbackShapes : FbStartPolling(u, cb)
     \/ FbStopPolling
     \/ \E s \in StatusValues : FbSetStatus("b", s)

NextSub ==
  \/ LsSubCall
  \/ LsPushGet(1)
  \/ LsPushSave(1)
  \/ LsMarkGet(1)
  \/ LsMarkSave(1)
  \/ \E t \in session.timers : LsTick(t)
  \/ FbSubCall
  \/ FbNotify(1)
  \/ FbMarkRead(1)
  \/ FbMarkWrite(1)
  \/ \E h \in DOMAIN session.attached : FbChildAdded(h)
  \/ \E h \in DOMAIN session.attached : FbValue(h)
  \/ \E h \in DOMAIN session.attached : FbChildChanged(h)

SpecSub == Init /\ [][NextSub]_vars

\* the page that subscribes on the local-storage backend, where setInterval keeps
\* running the callback of every timer that is not cleared
LsTicks == \E t \in session.timers : LsTick(t)

NextPoll ==
  \/ LsSubCall
  \/ LsPushGet(1)
  \/ LsPushSave(1)
  \/ LsMarkGet(1)
  \/ LsMarkSave(1)
  \/ LsTicks

SpecPoll == InitLs /\ [][NextPoll]_vars /\ WF_vars(LsTicks)

\* the page that listens to a channel and to threads on the Firebase backend,
\* one call at a time: startPolling, stopPolling, listenBastionChannel, listenDM,
\* the functions they returned, a channel message and a direct message from b to
\* a; the events of the channel and thread listeners come at any time
ScopeFrame ==
  /\ AllIdle
  /\ calls < MaxScopeCalls
  /\ calls' = calls + 1
  /\ UNCHANGED <<backend, overlap, msgs, pre, pre2>>

FbScopeCall ==
  /\ ScopeFrame
  /\ \/ \E u \in SubUsers, cb \in CallbackShapes :
          cb.notif /\ FbStartPolling(u, cb)
     \/ FbStopPolling
     \/ FbListenBastionChannel
     \/ \E p \in ListenPairs : FbListenDM(p[1], p[2])
     \/ \E h \in DOMAIN session.delivered : FbUnlisten(h)
     \/ \E k \in ChanCalls : k[1] = "sendmsg" /\ FbChanBegin(1, k[1], k[2], k[3])
     \/ /\ Len(ThreadAt(dms, PDm(Code("b"), Code("a")))) < MaxScopeDms
        /\ FbDmBegin(2, "b", "a")

NextScope ==
  \/ FbScopeCall
  \/ FbMsgSet(1)
  \/ FbDmSet(2)
  \/ FbDmIdxGet(2)
  \/ FbDmIdxSet(2)
  \/ FbNotify(2)
  \/ \E h \in DOMAIN session.attached : FbScopedChildAdded(h)

SpecScope == InitFb /\ [][NextScope]_vars

\* one client sends to one channel, one message at a time
LogSeqFrame ==
  /\ AllIdle
  /\ calls < MaxSends
  /\ calls' = calls + 1
  /\ UNCHANGED <<backend, overlap, msgs, pre, pre2>>

LsLogCall == LogSeqFrame /\ LsLogBegin(1)

FbLogCall == LogSeqFrame /\ FbLogBegin(1)

NextLog ==
  \/ LsLogCall
  \/ LsLogGet(1)
  \/ LsLogSave(1)
  \/ FbLogCall
  \/ FbLogSet(1)

SpecLog == Init /\ [][NextLog]_vars

\* the same calls on both backends: a run of friend calls between a and b on the
\* local-storage backend, one at a time, each result noted when the call has
\* returned; then the same calls in the same order on the Firebase backend, from
\* the same initial store
TwinCalls == {<<op, x, y>> : op \in Ops, x \in {"a", "b"}, y \in {"a", "b"}}

LsTwinCall ==
  /\ AllIdle
  /\ backend = "ls"
  /\ Len(twin.script) = calls
  /\ calls < MaxTwinCalls
  /\ calls' = calls + 1
  /\ pre' = Store
  /\ pre2' = pre
  /\ UNCHANGED <<backend, overlap, msgs>>
  /\ \E k \in TwinCalls : k[2] # k[3] /\ LsBegin(1, k[1], k[2], k[3])

\* the result of the call that has returned is noted
TwinRecord ==
  /\ AllIdle
  /\ backend = "ls"
  /\ Len(twin.script) < calls
  /\ ext' = [ext EXCEPT !.twin.script = Append(@, hist[Len(hist)])]
  /\ UNCHANGED <<backend, users, notifs, nextId, client, hist, pre, pre2, allOk,
                 overlap, calls, msgs, key, dmVars, subVars>>

\* the store the local run left is kept, and the Firebase run starts
TwinSwitch ==
  /\ AllIdle
  /\ backend = "ls"
  /\ calls > 0
  /\ Len(twin.script) = calls
  /\ ext' = [ext EXCEPT !.twin.users = users]
  /\ backend' = "fb"
  /\ users' = [n \in Names |-> EmptyUser]
  /\ notifs' = [n \in Names |-> <<>>]
  /\ nextId' = 1
  /\ hist' = <<>>
  /\ calls' = 0
  /\ UNCHANGED <<client, pre, pre2, allOk, overlap, msgs, key, dmVars, subVars>>

FbTwinCall ==
  /\ AllIdle
  /\ backend = "fb"
  /\ calls < Len(twin.script)
  /\ calls' = calls + 1
  /\ pre' = Store
  /\ pre2' = pre
  /\ UNCHANGED <<backend, overlap, msgs>>
  /\ FbBegin(1, twin.script[calls + 1].op, twin.script[calls + 1].x,
             twin.script[calls + 1].y)

NextTwin ==
  \/ LsTwinCall
  \/ LsGetTo(1)
  \/ LsGetFrom(1)
  \/ LsGetUsers(1)
  \/ LsSave(1)
  \/ LsPushGet(1)
  \/ LsPushSave(1)
  \/ TwinRecord
  \/ TwinSwitch
  \/ FbTwinCall
  \/ FbRead1(1)
  \/ FbRead2(1)
  \/ FbWrite1(1)
  \/ FbWrite2(1)
  \/ FbNotify(1)

SpecTwin == InitLs /\ [][NextTwin]_vars

\* the thread keys of every pair of usernames register accepts (3 characters or
\* more), of at most MaxValidLen characters, over '_' and 'a'
ValidNames ==
  UNION {[1..n -> {Underscore, LetterA}] : n \in MinNameLen..MaxValidLen}

InitValid ==
  /\ backend \in Backends
  /\ users = [n \in Names |-> EmptyUser]
  /\ notifs = [n \in Names |-> <<>>]
  /\ nextId = 1
  /\ client = [c \in Clients |-> Idle]
  /\ hist = <<>>
  /\ pre = [users |-> users, notifs |-> notifs, nextId |-> 1,
            msgs |-> [m \in MsgIds \cup {NoSuchId} |-> NoNode],
            dms |-> NoThreads, dmKeys |-> <<>>, dmIndex |-> [n \in Names |-> <<>>]]
  /\ pre2 = pre
  /\ allOk = TRUE
  /\ overlap = "none"
  /\ calls = 0
  /\ msgs = [m \in MsgIds \cup {NoSuchId} |-> NoNode]
  /\ \E a \in ValidNames, b \in ValidNames : key = [NoKey EXCEPT !.a = a, !.b = b]
  /\ dms = NoThreads
  /\ dmKeys = <<>>
  /\ dmIndex = [n \in Names |-> <<>>]
  /\ clock = [c \in Clients |-> 1]
  /\ statuses = [n \in Names |-> "none"]
  /\ session = NoSession
  /\ fired = NoneFired
  /\ ext = NoExt

SpecValid == InitValid /\ [][NextKey]_vars

\* register on the Firebase backend: a call starts on any idle client at any time
FbRegisterCall ==
  /\ calls < MaxRegCalls
  /\ calls' = calls + 1
  /\ UNCHANGED <<backend, overlap, msgs, pre, pre2>>
  /\ \E c \in Clients, raw \in RawNames, p \in Passwords :
       p.owner = c /\ FbRegisterBegin(c, raw, p)

NextReg ==
  \/ FbRegisterCall
  \/ \E c \in Clients : FbRegisterGet(c)
  \/ \E c \in Clients : FbRegisterSet(c)

SpecReg == InitFb /\ [][NextReg]_vars

\* ------------------------------------------------------------ properties
Last == hist[Len(hist)]
\* the call before the last one
Before == hist[Len(hist) - 1]
Is(e, op, x, y) == e.op = op /\ e.x = x /\ e.y = y

FriendsOf(us, u) == us[u].friends
SentOf(us, u) == us[u].friendRequestsSent
ReceivedOf(us, u) == us[u].friendRequestsReceived

AreFriends(us, A, B) == Includes(FriendsOf(us, A), B) /\ Includes(FriendsOf(us, B), A)
\* a friendRequestsSent or friendRequestsReceived entry between A and B, on either record
PendingBetween(us, A, B) ==
  \/ Includes(SentOf(us, A), B) \/ Includes(ReceivedOf(us, A), B)
  \/ Includes(SentOf(us, B), A) \/ Includes(ReceivedOf(us, B), A)
NoRelationship(us, A, B) ==
  /\ ~Includes(FriendsOf(us, A), B) /\ ~Includes(FriendsOf(us, B), A)
  /\ ~PendingBetween(us, A, B)
\* a request from `from` to `me` is pending
Pending(us, from, me) ==
  Includes(SentOf(us, from), me) \/ Includes(ReceivedOf(us, me), from)

\* C1: sendRequest(A,B) then acceptRequest(B,A), from no prior relationship and with
\* nothing in between, leaves A and B in each other's friends and no pending entry
\* between them, in both backends.
C1_SendThenAccept ==
  \A A, B \in Registered :
    ( /\ A # B /\ AllIdle /\ Len(hist) = 2
      /\ Is(Before, "send", A, B) /\ Is(Last, "accept", B, A)
      /\ NoRelationship(pre2.users, A, B) )
    => AreFriends(users, A, B) /\ ~PendingBetween(users, A, B)

C1_Witness ==
  /\ backend = "fb" /\ AllIdle /\ Len(hist) = 2
  /\ Is(Before, "send", "a", "b") /\ Is(Last, "accept", "b", "a")
  /\ NoRelationship(pre2.users, "a", "b")
  /\ AreFriends(users, "a", "b")

\* C2: when sendRequest(A,B) has created a pending request and sendRequest(B,A) is
\* the next call, that second call returns ok, A and B are friends and no pending
\* entry between them remains, in both backends.
C2_MutualRequest ==
  \A A, B \in Registered :
    ( /\ AllIdle /\ Len(hist) = 2
      /\ Is(Before, "send", A, B) /\ Before.ok /\ Before.kind = "sent"
      /\ Is(Last, "send", B, A) )
    => Last.ok /\ AreFriends(users, A, B) /\ ~PendingBetween(users, A, B)

C2_Witness ==
  /\ backend = "fb" /\ AllIdle /\ Len(hist) = 2
  /\ Is(Before, "send", "a", "b") /\ Before.kind = "sent"
  /\ Is(Last, "send", "b", "a") /\ Last.kind = "accepted"

\* C3: between calls of a non-interleaved run the friends relation is symmetric.
C3_FriendsSymmetric ==
  AllIdle =>
    \A A, B \in Registered :
      Includes(FriendsOf(users, A), B) <=> Includes(FriendsOf(users, B), A)

\* a removeFriend has just taken a friendship apart
C3_Witness ==
  /\ backend = "fb" /\ AllIdle /\ Len(hist) > 0
  /\ Is(Last, "remove", "a", "b")
  /\ AreFriends(pre.users, "a", "b")
  /\ ~Includes(FriendsOf(users, "b"), "a")

\* C4: between calls of a non-interleaved run there is no dangling half-request:
\* B is in A.friendRequestsSent exactly when A is in B.friendRequestsReceived.
C4_NoDanglingRequest ==
  AllIdle =>
    \A A, B \in Registered :
      Includes(SentOf(users, A), B) <=> Includes(ReceivedOf(users, B), A)

C4_Witness ==
  /\ backend = "ls" /\ AllIdle /\ Len(hist) > 0
  /\ Is(Last, "send", "a", "b") /\ Last.kind = "sent"
  /\ Includes(SentOf(users, "a"), "b") /\ Includes(ReceivedOf(users, "b"), "a")

NoDangling ==
  \A A, B \in Registered :
    Includes(SentOf(users, A), B) <=> Includes(ReceivedOf(users, B), A)

\* C5 as stated: in the Firebase backend with interleaved clients, every quiescent
\* state in which all calls returned ok has no dangling half-request.
C5_QuiescentNoDangling ==
  (AllIdle /\ allOk) => NoDangling

\* C5, amended: the same, for runs in which no two calls that share a user record
\* were in progress together.
C5_QuiescentNoDanglingUnshared ==
  (AllIdle /\ allOk /\ overlap # "shared") => NoDangling

\* two calls on different records ran together and left a pending request
C5_Witness ==
  /\ AllIdle /\ allOk /\ overlap = "disjoint"
  /\ Includes(SentOf(users, "a"), "b") /\ Includes(ReceivedOf(users, "b"), "a")
  /\ Includes(SentOf(users, "c"), "d") /\ Includes(ReceivedOf(users, "d"), "c")

\* C6: no list of a user's record holds that user's own name.
C6_NeverSelf ==
  \A u \in Registered :
    /\ ~Includes(FriendsOf(users, u), u)
    /\ ~Includes(SentOf(users, u), u)
    /\ ~Includes(ReceivedOf(users, u), u)

\* C7: no list of a user's record holds a name twice, also when the calls of
\* several clients interleave.
C7_NoDuplicates ==
  \A u \in Registered :
    /\ NoDup(FriendsOf(users, u))
    /\ NoDup(SentOf(users, u))
    /\ NoDup(ReceivedOf(users, u))


\* C8: after acceptRequest(me, from) returned ok no pending entry between me and
\* from is left on either record, in both backends.
C8_AcceptClearsPending ==
  \A me, from \in Registered :
    (AllIdle /\ Len(hist) > 0 /\ Is(Last, "accept", me, from) /\ Last.ok)
      => ~PendingBetween(users, me, from)

\* the four cases in which sendRequest(from, to) is to be rejected
MustReject(us, from, to) ==
  \/ from = to
  \/ from \notin Registered
  \/ to \notin Registered
  \/ Includes(FriendsOf(us, from), to)
  \/ Includes(SentOf(us, from), to)

\* C9: sendRequest(from, to) with from = to, or a name without a record, or to
\* already in from.friends or in from.friendRequestsSent, returns ok = false and
\* leaves every record and every notification log as it was.
C9_SendRejected ==
  \A from, to \in Names :
    ( /\ AllIdle /\ Len(hist) > 0 /\ Is(Last, "send", from, to)
      /\ MustReject(pre.users, from, to) )
    => ~Last.ok /\ users = pre.users /\ notifs = pre.notifs

\* a second sendRequest(a, b) on the pending one
C9_Witness ==
  /\ backend = "fb" /\ AllIdle /\ Len(hist) = 2
  /\ Is(Before, "send", "a", "b") /\ Before.kind = "sent"
  /\ Is(Last, "send", "a", "b") /\ Last.kind = "dup"

\* C10: declineRequest(me, from) returns ok and adds no notification; with no
\* request from `from` to `me` pending it leaves every list as it was, and with one
\* pending it removes from from me.friendRequestsReceived and me from
\* from.friendRequestsSent.
C10_Decline ==
  \A me, from \in Names :
    (AllIdle /\ Len(hist) > 0 /\ Is(Last, "decline", me, from))
    => /\ Last.ok
       /\ notifs = pre.notifs
       /\ ~Pending(pre.users, from, me) => users = pre.users
       /\ Pending(pre.users, from, me) =>
            /\ ~Includes(ReceivedOf(users, me), from)
            /\ ~Includes(SentOf(users, from), me)

\* a pending request was declined
C10_Witness ==
  /\ backend = "ls" /\ AllIdle /\ Len(hist) = 2
  /\ Is(Before, "send", "b", "a") /\ Before.kind = "sent"
  /\ Is(Last, "decline", "a", "b")
  /\ users = pre2.users

\* C11: removeFriend(A, B) returns ok whether or not A and B are friends, leaves
\* neither in the other's friends list, and a second consecutive removeFriend(A, B)
\* leaves the store as the first one left it.
C11_RemoveIdempotent ==
  (AllIdle /\ Len(hist) > 0 /\ Last.op = "remove")
  => /\ Last.ok
     /\ ~Includes(FriendsOf(users, Last.x), Last.y)
     /\ ~Includes(FriendsOf(users, Last.y), Last.x)
     /\ (Len(hist) = 2 /\ Is(Before, "remove", Last.x, Last.y))
          => users = pre.users /\ notifs = pre.notifs

\* two friends were removed from each other, twice
C11_Witness ==
  /\ AllIdle /\ Len(hist) = 2
  /\ Is(Before, "remove", "a", "b") /\ Is(Last, "remove", "a", "b")
  /\ AreFriends(pre2.users, "a", "b")
  /\ ~AreFriends(users, "a", "b")

\* C12: after any sequence of pushes to one user the log of that user holds the
\* most recently pushed entries, newest first, and at most 50 of them, in both
\* backends.
C12_NotifCap ==
  AllIdle =>
    /\ Len(notifs["a"]) = IF nextId - 1 <= NotifCap THEN nextId - 1 ELSE NotifCap
    /\ \A i \in 1..Len(notifs["a"]) : notifs["a"][i].id = nextId - i

\* C13: a push to a name without a record leaves the whole store as it was, in
\* both backends.
C13_PushNoTarget ==
  \A from \in Names, target \in Names \ Registered :
    (AllIdle /\ Len(hist) > 0 /\ Is(Last, "push", from, target))
    => users = pre.users /\ notifs = pre.notifs

\* C17: unreadCount(u) is the number of entries of u's log with read = false; when
\* markAllRead(u) has returned every entry of the log is read, unreadCount(u) is 0,
\* and the entries are otherwise those of before, in their order.
C17_MarkAllRead ==
  /\ \A u \in Names :
       UnreadCount(notifs[u]) =
         Cardinality({i \in 1..Len(notifs[u]) : notifs[u][i].read = FALSE})
  /\ \A u \in Names :
       (AllIdle /\ Len(hist) > 0 /\ Is(Last, "mark", u, u))
       => /\ Last.ok
          /\ UnreadCount(notifs[u]) = 0
          /\ \A i \in 1..Len(notifs[u]) : notifs[u][i].read
          /\ Len(notifs[u]) = Len(pre.notifs[u])
          /\ \A i \in 1..Len(notifs[u]) :
               notifs[u][i] = [pre.notifs[u][i] EXCEPT !.read = TRUE]
          /\ \A v \in Names \ {u} : notifs[v] = pre.notifs[v]
          /\ users = pre.users

\* markAllRead(a) ran on a log of a read entry under an unread one
C17_Witness ==
  /\ AllIdle /\ Len(hist) > 0 /\ Is(Last, "mark", "a", "a")
  /\ Len(pre.notifs["a"]) = 2
  /\ UnreadCount(pre.notifs["a"]) = 1
  /\ UnreadCount(notifs["a"]) = 0

\* the logs after a call that put one unread entry of the given type and source
\* on top of the log of target, and touched no other log
OneMoreFor(target, type, from) ==
  /\ Len(notifs[target]) = Len(pre.notifs[target]) + 1
  /\ Tail(notifs[target]) = pre.notifs[target]
  /\ Head(notifs[target]).type = type
  /\ Head(notifs[target]).from = from
  /\ Head(notifs[target]).read = FALSE
  /\ \A v \in Names \ {target} : notifs[v] = pre.notifs[v]

\* C14: a sendRequest(A, B) that creates a pending request adds one unread
\* friend_request entry with source A to B's log and nothing to any other log; an
\* accept by B of A, also one reached through sendRequest(B, A), adds one
\* friend_accept entry with source B to A's log and nothing to any other log.
C14_NotificationFanOut ==
  (AllIdle /\ Len(hist) > 0)
  => /\ (Last.op = "send" /\ Last.kind = "sent")
          => OneMoreFor(Last.y, "friend_request", Last.x)
     /\ Last.kind = "accepted"
          => /\ Last.op \in {"send", "accept"}
             /\ OneMoreFor(Last.y, "friend_accept", Last.x)

\* sendRequest(a, b), then sendRequest(b, a) taking the auto-accept path
C14_Witness ==
  /\ AllIdle /\ Len(hist) = 2
  /\ Is(Before, "send", "a", "b") /\ Before.kind = "sent"
  /\ Is(Last, "send", "b", "a") /\ Last.kind = "accepted"
  /\ Len(notifs["b"]) = 1 /\ notifs["b"][1].type = "friend_request"
  /\ Len(notifs["a"]) = 1 /\ notifs["a"][1].type = "friend_accept"

\* C15: after acceptRequest(me, from) returned ok, me's log holds no unread
\* friend_request entry with source from.
C15_AcceptMarksRead ==
  \A me, from \in Registered :
    (AllIdle /\ Len(hist) > 0 /\ Is(Last, "accept", me, from) /\ Last.ok)
    => \A i \in 1..Len(notifs[me]) :
         ~(/\ notifs[me][i].type = "friend_request"
           /\ notifs[me][i].from = from
           /\ notifs[me][i].read = FALSE)

\* the entries the log of u held when the last call began are the oldest entries of
\* the log now, read flags included
KeepsEntries(u) ==
  /\ Len(notifs[u]) >= Len(pre.notifs[u])
  /\ SubSeq(notifs[u], Len(notifs[u]) - Len(pre.notifs[u]) + 1, Len(notifs[u]))
       = pre.notifs[u]

\* C16: acceptRequest(me, from) changes the read flag of no entry of me's log, and
\* no call but markNotificationsRead changes the read flag of any entry.
C16_AcceptKeepsReadFlags ==
  /\ \A me, from \in Names :
       (AllIdle /\ Len(hist) > 0 /\ Is(Last, "accept", me, from)) => KeepsEntries(me)
  /\ (AllIdle /\ Len(hist) > 0 /\ Last.op # "mark") => \A u \in Names : KeepsEntries(u)

\* b's request to a was accepted by a, and its notification in a's log is unread
C16_Witness ==
  /\ AllIdle /\ Len(hist) = 2
  /\ Is(Before, "send", "b", "a") /\ Before.kind = "sent"
  /\ Is(Last, "accept", "a", "b") /\ Last.ok
  /\ Len(notifs["a"]) = 1
  /\ notifs["a"][1].type = "friend_request" /\ notifs["a"][1].from = "b"
  /\ notifs["a"][1].read = FALSE

\* C18: an entry of a log that is read is never unread again, whatever calls run
\* and however the clients interleave.
C18_ReadMonotonic ==
  [][\A u \in Names : \A i \in 1..Len(notifs[u]) :
       notifs[u][i].read =>
         \A j \in 1..Len(notifs'[u]) :
           notifs'[u][j].id = notifs[u][i].id => notifs'[u][j].read]_vars

\* the users under an emoji of a reactions map
UsersOf(reactions, emoji) ==
  {ListOf(reactions, emoji)[i] : i \in 1..Len(ListOf(reactions, emoji))}

\* two reactions maps hold the same users under the same emoji
SameReactions(r1, r2) ==
  /\ DOMAIN r1 = DOMAIN r2
  /\ \A e \in Emojis : UsersOf(r1, e) = UsersOf(r2, e)

\* C19: one toggle of (message, emoji, user) on a stored message inserts the user
\* when absent and removes the user when present, an emoji left without users has
\* no entry, and two toggles in succession give the reactions map its first value.
C19_ToggleInverse ==
  \A u \in Reactors, m \in MsgIds, e \in Emojis :
    (AllIdle /\ Len(hist) > 0 /\ Is(Last, "react", u, <<m, e>>) /\ pre.msgs[m].sent)
    => /\ UsersOf(msgs[m].reactions, e) =
            IF u \in UsersOf(pre.msgs[m].reactions, e)
              THEN UsersOf(pre.msgs[m].reactions, e) \ {u}
              ELSE UsersOf(pre.msgs[m].reactions, e) \cup {u}
       /\ \A f \in Emojis :
            f \in DOMAIN msgs[m].reactions <=> UsersOf(msgs[m].reactions, f) # {}
       /\ \A f \in Emojis \ {e} :
            ListOf(msgs[m].reactions, f) = ListOf(pre.msgs[m].reactions, f)
       /\ \A n \in DOMAIN msgs : n # m => msgs[n] = pre.msgs[n]
       /\ (Len(hist) = 2 /\ Is(Before, "react", u, <<m, e>>) /\ pre2.msgs[m].sent)
            => /\ SameReactions(msgs[m].reactions, pre2.msgs[m].reactions)
               /\ msgs[m].sent = pre2.msgs[m].sent

\* a toggled e1 twice on message 1, where b had reacted with e1
C19_Witness ==
  /\ AllIdle /\ Len(hist) = 2
  /\ Is(Before, "react", "a", <<1, "e1">>) /\ Is(Last, "react", "a", <<1, "e1">>)
  /\ pre2.msgs[1].sent
  /\ UsersOf(pre2.msgs[1].reactions, "e1") = {"b"}
  /\ UsersOf(pre.msgs[1].reactions, "e1") = {"a", "b"}
  /\ UsersOf(msgs[1].reactions, "e1") = {"b"}

\* C20: addReaction with a message id the channel does not have leaves the message
\* log and every reactions map as they were and creates no node, in both backends.
C20_ReactNoMessage ==
  \A u \in Reactors, e \in Emojis :
    (AllIdle /\ Len(hist) > 0 /\ Is(Last, "react", u, <<NoSuchId, e>>))
    => msgs = pre.msgs

\* C21: when two different users toggle the same emoji on the same stored message
\* from two clients whose store requests interleave, and neither had reacted with
\* it before, the emoji holds both users once both calls have returned, in the
\* Firebase backend and in the local-storage backend.
C21_ConcurrentToggles ==
  (/\ AllIdle /\ overlap = "shared" /\ Len(hist) = 2
   /\ Before.kind = "reacted" /\ Last.kind = "reacted"
   /\ Before.x # Last.x
   /\ {Before.x, Last.x} \cap UsersOf(pre.msgs[Last.y[1]].reactions, Last.y[2]) = {})
  => {Before.x, Last.x} \subseteq UsersOf(msgs[Last.y[1]].reactions, Last.y[2])

\* C22: when two clients push a notification to the same registered user and
\* their store requests interleave, the log of that user holds both notifications
\* on top of the entries it had (below the cap of 50) once both calls have
\* returned, in the Firebase backend and in the local-storage backend.
C22_ConcurrentPushes ==
  (/\ AllIdle /\ overlap = "shared" /\ Len(hist) = 2
   /\ Before.op = "push" /\ Last.op = "push"
   /\ Before.ok /\ Last.ok
   /\ Len(pre.notifs[Last.y]) + 2 <= NotifCap)
  => /\ Len(notifs[Last.y]) = Len(pre.notifs[Last.y]) + 2
     /\ notifs[Last.y][1].id # notifs[Last.y][2].id
     /\ \A i \in 1..2 : /\ notifs[Last.y][i].id >= pre.nextId
                        /\ notifs[Last.y][i].from \in {Before.x, Last.x}
     /\ \A i \in 1..Len(pre.notifs[Last.y]) :
          notifs[Last.y][i + 2].id = pre.notifs[Last.y][i].id

\* C23: the thread key computed for (A, B) equals the thread key computed for
\* (B, A), for getDMKey of the local-storage backend and for P.dm of the Firebase
\* backend, so both orders of the pair name one storage location.
C23_KeySymmetric ==
  key.ab # <<>> => key.ab = key.ba

\* the keys of 'b_' and 'b' were computed, the pair given in descending order
C23_Witness ==
  /\ key.a = <<LetterA + 1, Underscore>>
  /\ key.b = <<LetterA + 1>>
  /\ key.ab # <<>>
  /\ key.ba = key.ab

\* C24: a call of sendDMMessage between A and B, made when no other call is in
\* progress, adds exactly one message to what getDMMessages(A, B) returned before
\* it, at the end, with the caller as its sender: the thread is the sequence of
\* the sends in call order and every earlier result is a prefix of a later one.
C24_ThreadAppendOnly ==
  (AllIdle /\ Len(hist) > 0 /\ Last.op = "dm")
  => LET old == GetDMMessages(pre.dms, Last.x, Last.y)
         new == GetDMMessages(dms, Last.y, Last.x)
     IN /\ Len(new) = Len(old) + 1
        /\ SubSeq(new, 1, Len(old)) = old
        /\ new[Len(new)].from = Last.x
        /\ new[Len(new)].id = calls

\* C25: when sendDMMessage(from, to) has returned, getRecentDMPartners(from)
\* starts with to and getRecentDMPartners(to) starts with from, each followed by
\* the partners it listed before in their order (most recent exchange first);
\* and between calls no partner list names a user twice or holds more than 30
\* names, in both backends.
C25_PartnerIndex ==
  AllIdle =>
    /\ \A u \in DmUsers :
         /\ NoDup(GetRecentDMPartners(Store, u))
         /\ Len(GetRecentDMPartners(Store, u)) <= PartnerCap
    /\ (Len(hist) > 0 /\ Last.op = "dm")
         => /\ GetRecentDMPartners(Store, Last.x) =
                 Slice(<<Code(Last.y)>> \o
                         Without(GetRecentDMPartners(pre, Last.x), Code(Last.y)),
                       PartnerCap)
            /\ GetRecentDMPartners(Store, Last.y) =
                 Slice(<<Code(Last.x)>> \o
                         Without(GetRecentDMPartners(pre, Last.y), Code(Last.x)),
                       PartnerCap)

\* C26: after any sequence of startPolling and stopPolling calls of one page, at
\* most one poll timer runs in the local-storage backend; in the Firebase backend
\* every attached session listener was attached by the most recent startPolling,
\* and while subscribed exactly its three listeners are attached.
C26_OneSubscriptionSet ==
  /\ backend = "ls" => Cardinality(session.timers) <= 1
  /\ backend = "fb" =>
       /\ \A h \in DOMAIN session.attached : session.attached[h].gen = session.gen
       /\ session.subscribed =>
            /\ Cardinality(DOMAIN session.attached) = 3
            /\ {session.attached[h].kind : h \in DOMAIN session.attached}
                 = {"notif", "dmIndex", "status"}

\* startPolling was called a second time without stopPolling between
C26_Witness ==
  /\ backend = "fb"
  /\ Len(hist) = 2 /\ Before.op = "start" /\ Last.op = "start"
  /\ session.gen = 2
  /\ DOMAIN session.attached = {4, 5, 6}

\* C27: once startPolling has been called again, every session callback that is
\* invoked belongs to the callbacks object of the most recent call, also when
\* that object omits onNewNotification or onNewDM: no callback of an earlier
\* call is invoked again.
C27_NoEarlierCallback ==
  [][fired'.n # fired.n => fired'.owner = session'.gen]_vars

\* C28: stopPolling called when not subscribed (never subscribed, or stopPolling
\* was the last subscription call) changes nothing of the page's subscription
\* state, and while not subscribed no session callback is invoked, whatever is
\* written to the store.
C28_StopIdempotent ==
  [][/\ ~session.subscribed => fired' = fired
     /\ (/\ ~session.subscribed
         /\ calls' # calls
         /\ Len(hist') > 0
         /\ hist'[Len(hist')].op = "stop") => session' = session]_vars

\* after startPolling with all callbacks and stopPolling, a push to a returned
\* and no callback has been invoked
C28_Witness ==
  /\ AllIdle /\ calls = 4 /\ Len(hist) = 2
  /\ Before.op = "stop" /\ Last.op = "push"
  /\ session.gen = 1 /\ ~session.subscribed
  /\ IF backend = "ls" THEN session.onNewNotification = 1
     ELSE session.callbacks.notif
  /\ UnreadCount(notifs["a"]) = 1
  /\ fired.n = 0

\* C29: onNewNotification is invoked at most once for each notification of the
\* user's log, over pushes, markNotificationsRead, timer ticks or child_added
\* events, and repeated startPolling / stopPolling, in both backends.
C29_AtMostOnce ==
  \A i \in DOMAIN fired.count : fired.count[i] <= 1

\* the notification i is in the log of a, pushed since the startPolling call g,
\* whose subscription has a callback for it
PushedSince(i, g) ==
  /\ session.subscribed /\ session.gen = g
  /\ session.onNewNotification # 0
  /\ i >= session.since
  /\ \E j \in 1..Len(notifs["a"]) : notifs["a"][j].id = i

\* C30: in the local-storage backend, while the subscription for a is active and
\* the timer keeps ticking, every notification pushed to a after startPolling is
\* eventually passed to onNewNotification (or the subscription ends or is
\* replaced), also when markNotificationsRead lowers the unread count between
\* ticks.
C30_PollDelivers ==
  \A i \in 1..MaxSubCalls, g \in 1..MaxSubCalls :
    PushedSince(i, g)
      ~> (i \in DOMAIN fired.count \/ ~session.subscribed \/ session.gen # g)

\* the handlers of listenBastionChannel and listenDM made so far
Scoped == DOMAIN session.delivered

\* C31: a listener of listenBastionChannel or listenDM stays attached until the
\* function returned for it is called, whatever startPolling, stopPolling and the
\* functions of other listeners do; its callback gets no child twice, and none
\* once its function was called.
C31_ScopedIndependent ==
  [][ /\ \A h \in DOMAIN session'.delivered :
           /\ (h \in DOMAIN session'.attached) <=> (h \notin session'.cancelled)
           /\ NoDup(session'.delivered[h])
      /\ \A h \in Scoped :
           session'.delivered[h] # session.delivered[h] => h \notin session.cancelled
    ]_vars

\* the function returned for one channel listener was called and then a message
\* was sent: the other listener of the channel has the message, the detached one
\* has not
C31_Witness ==
  \E h1, h2 \in Scoped :
    /\ h1 \in session.cancelled
    /\ h1 \notin DOMAIN session.attached
    /\ h2 \in DOMAIN session.attached
    /\ session.attached[h2].kind = "channel"
    /\ session.delivered[h1] = <<>>
    /\ session.delivered[h2] = <<1>>

\* C32: while a friend call on two users with a record is in progress, the store
\* never shows one of the two records changed from what it was when the call
\* began and the other one not.
C32_BothRecordsOrNeither ==
  \A c \in Clients :
    ( /\ Running(c) /\ client[c].op \in Ops
      /\ client[c].x \in Registered /\ client[c].y \in Registered
      /\ client[c].x # client[c].y )
    => ( (users[client[c].x] # pre.users[client[c].x])
         <=> (users[client[c].y] # pre.users[client[c].y]) )

\* the ids of the last n sends, in send order
LastSends(n) == [i \in 1..n |-> calls - n + i]

\* C33: between sends the channel log ends with the message sent last, and in the
\* local-storage backend it holds the most recent 500 sends in send order, never
\* more.
C33_ChannelLogCap ==
  AllIdle =>
    /\ calls > 0 => chanLog # <<>> /\ chanLog[Len(chanLog)] = calls
    /\ backend = "ls" =>
         /\ Len(chanLog) <= 500
         /\ chanLog = LastSends(IF calls < 500 THEN calls ELSE 500)

\* the usernames of a list, as a set
Members(s) == {s[i] : i \in 1..Len(s)}

\* C34: the same non-interleaved friend calls on the two backends return the same
\* success flag call by call and leave every user with the same friends,
\* friendRequestsSent and friendRequestsReceived sets.
C34_BackendsAgree ==
  (backend = "fb" /\ AllIdle /\ calls > 0) =>
    /\ hist[Len(hist)].ok = twin.script[calls].ok
    /\ calls = Len(twin.script) =>
         \A u \in Registered :
           /\ Members(users[u].friends) = Members(twin.users[u].friends)
           /\ Members(users[u].friendRequestsSent)
                = Members(twin.users[u].friendRequestsSent)
           /\ Members(users[u].friendRequestsReceived)
                = Members(twin.users[u].friendRequestsReceived)

\* the storage location of the thread of X and Y in the backend of the run
ThreadKeyOf(X, Y) == IF backend = "ls" THEN getDMKey(X, Y) ELSE PDm(X, Y)

\* C35: the thread key computed for two valid usernames is the key of no other
\* pair of valid usernames, so the messages stored under it are returned for that
\* pair only.
C35_ThreadIsolation ==
  key.ab # <<>> =>
    \A X, Y \in ValidNames :
      ThreadKeyOf(X, Y) = key.ab => {X, Y} = {key.a, key.b}

\* C36: whenever a call of a non-interleaved run puts B into A.friends, one of the
\* two had a request from the other in its friendRequestsReceived when the call
\* began.
C36_FriendsOnlyByRequest ==
  [][ \A A, B \in Registered :
        ( /\ A # B
          /\ ~Includes(FriendsOf(users, A), B)
          /\ Includes(FriendsOf(users', A), B) )
        => \/ Includes(ReceivedOf(pre.users, A), B)
           \/ Includes(ReceivedOf(pre.users, B), A)
    ]_vars

\* C37: a stored account record is never replaced, and of two register calls for
\* one username, interleaved or not, at most one returns success, the stored
\* record being the one of the call that did.
C37_RegisterUnique ==
  [][ /\ \A n \in DOMAIN accounts :
           n \in DOMAIN accounts' /\ accounts'[n] = accounts[n]
      /\ \A i, j \in 1..Len(hist') :
           (i < j /\ hist'[i].op = "register" /\ hist'[j].op = "register"
            /\ hist'[i].x = hist'[j].x)
           => /\ ~(hist'[i].ok /\ hist'[j].ok)
              /\ hist'[i].ok => accounts'[hist'[i].x].password = hist'[i].y
              /\ hist'[j].ok => accounts'[hist'[j].x].password = hist'[j].y
    ]_vars

====
